---- MODULE Spec2Model ----
(***************************************************************************)
(* Model of src/app.py: the verification gate (captcha_store,              *)
(* verified_sessions), the download endpoint, the per-job download worker  *)
(* with its progress hook, and the job table (download_status).            *)
(*                                                                         *)
(* Time is a clock in seconds that advances in steps of TimeStep.          *)
(* Percentages are kept in tenths of a percent (999 is 99.9, 1000 is       *)
(* 100.0).  The fields speed, eta and ffmpeg_available of DownloadProgress *)
(* are display-only and are left out of the record.                        *)
(***************************************************************************)
EXTENDS Integers, Sequences, FiniteSets, TLC

\* ------------------------------------------------------------------ bounds
MaxCaptchas == 1
MaxTokens == 2
MaxJobs == 2
NumCodes == 2
NumRedeemers == 2
NumWorkers == 1
MaxTicks == 3
AttemptCap == 3
PoolSize == 1
MaxSweeps == 3

\* ------------------------------------------------------- program constants
CaptchaTTL == 300
SessionTTL == 600

\* the clock advances one captcha lifetime at a time
TimeStep == CaptchaTTL

MinCode == 1000
MinFileSize == 1024
MaxFormatLen == 100
max_retries == 3
BackoffCap == 30
ExceptionSleep == 2
MaxJobAge == 3600
IdleWindow == 1800
SweepInterval == 1800
DeliveryDelay == 300

\* ------------------------------------------------------------------- state
VARIABLES
    now,                \* datetime.now(), seconds
    captcha_store,      \* captcha_id -> [code, expires]
    verified_sessions,  \* session_token -> [expires, verified_videos]
    download_status,    \* the job ids that are keys of the job table
    job,                \* job_id -> the DownloadProgress object of that job
    nextCaptcha,        \* number of captcha ids handed out (uuid4 is fresh)
    nextToken,          \* number of session tokens handed out
    nextJob,            \* number of job ids handed out
    vpc,                \* position of each verify_captcha request
    vloc,               \* locals of each verify_captcha request
    wpc,                \* position of each job's download_worker thread
    wloc,               \* locals of each job's download_worker thread
    dirs,               \* temp_dir -> files on disk (name -> size)
    issued,             \* history: captcha_id -> [code, expires] as issued
    wrong,              \* history: captcha_id -> incorrect-code attempts answered
    minted,             \* history: session_token -> how it was minted
    accepted,           \* history: session_token -> accepted submissions
    refused,            \* history: captcha ids answered 'Incorrect CAPTCHA code'
    lapsed,             \* history: tokens a submission found expired
    cb,                 \* job_id -> the callback event that passed the latch check
    ppc,                \* position of the get_download_status request
    snap,               \* the response that request has built so far
    served,             \* history: the files download_file has sent
    sweeps,             \* history: number of cleanup_old_jobs runs
    cleaner,            \* the schedule_cleanup_job threads that are past their sleep
    sweeper,            \* position and locals of a cleanup_old_jobs run in progress
    scan,               \* arguments and result of a find_final_file_in_dir call
    probe,              \* the metadata probe: caller, probe thread and their queues
    locks               \* the owner of each table lock and each thread's lock sections

gateVars == <<captcha_store, verified_sessions, nextCaptcha, nextToken>>
redeemVars == <<vpc, vloc>>
jobVars == <<download_status, job, nextJob>>
workerVars == <<wpc, wloc, dirs>>
histVars == <<issued, wrong, minted, accepted, refused, lapsed>>
clientVars == <<cb, ppc, snap, served, sweeps>>
auxVars == <<cleaner, sweeper, scan, probe, locks>>
vars == <<now, gateVars, redeemVars, jobVars, workerVars, histVars, clientVars, auxVars>>

\* ----------------------------------------------------------------- helpers
Remove(f, k) == [x \in DOMAIN f \ {k} |-> f[x]]

Put(f, k, v) == [x \in DOMAIN f \cup {k} |-> IF x = k THEN v ELSE f[x]]

Min(a, b) == IF a < b THEN a ELSE b

Codes == MinCode .. (MinCode + NumCodes - 1)

CaptchaIds == 1 .. MaxCaptchas

Tokens == 1 .. MaxTokens

JobIds == 1 .. MaxJobs

WorkerJobs == 1 .. NumWorkers

Redeemers == 1 .. NumRedeemers

NoId == 0

NoInput == [digits |-> 0, pad |-> FALSE]

\* what a client may type: a code, possibly surrounded by blanks, or nothing
UserInputs == {NoInput, [digits |-> MinCode, pad |-> TRUE]}
                  \cup {[digits |-> c, pad |-> FALSE] : c \in Codes}

Videos == {"v1"}

UrlInputs == {"", "ftp://youtu.be/v1", "https://example.com/", "https://youtu.be/v1"}

AllowedChars == {"a", "b", "0", "[", "]", "+", "/", ".", "_", "-"}

FormatInputs == {<< >>, <<"b">>, <<"b", ";">>}

\* a selector of allowed characters that is one character too long
LongFormat == [i \in 1 .. (MaxFormatLen + 1) |-> "b"]

\* selectors that fail the allow-list: a character outside it, '..', '//', and
\* more than 100 characters
BadFormats == {<<"b", ";">>, <<"b", ".", ".">>, <<"b", "/", "/">>, LongFormat}

ExtInputs == {"mp4", "mp3", "exe"}

\* --------------------------------------------------------- pure functions
\* str.strip() of the typed code (line 903)
strip(user_input) == [user_input EXCEPT !.pad = FALSE]

\* the text of a stored code, as generate_captcha writes it (line 832)
code_str(code) == [digits |-> code, pad |-> FALSE]

vc_is_valid_any(user_input, stored_code) == TRUE

\* is_valid = user_input.strip() == stored_code (line 903)
vc_is_valid(user_input, stored_code) == strip(user_input) = code_str(stored_code)

captcha_expired_never(t, expires) == FALSE

\* datetime.now() > captcha_data['expires'] (lines 788 and 890)
captcha_expired(t, expires) == t > expires

session_expired_never(t, expires) == FALSE

session_expired_early(t, expires) == t >= expires

session_expired(t, expires) == t > expires

vc_pop_skipped(store, captcha_id) == store

vc_pop_wrong_key(store, captcha_id) == Remove(store, NoId)

\* captcha_store.pop(captcha_id, None) before the code is compared (line 899)
vc_pop(store, captcha_id) == Remove(store, captcha_id)

\* the captcha half of cleanup_expired_captchas
SweptCaptchas(store, t) ==
    [k \in {x \in DOMAIN store : ~captcha_expired(t, store[x].expires)} |-> store[k]]

\* the session half of cleanup_expired_captchas
SweptSessions(sessions, t) ==
    [k \in {x \in DOMAIN sessions : ~session_expired(t, sessions[x].expires)} |-> sessions[k]]

startswith_http(url) == url \in {"https://example.com/", "https://youtu.be/v1"}

\* re.search of the two YouTube patterns: the scheme is not part of them
extract_video_id(url) ==
    IF url \in {"ftp://youtu.be/v1", "https://youtu.be/v1"} THEN "v1" ELSE ""

HasAdjacent(s, c) == \E i \in 1 .. (Len(s) - 1) : s[i] = c /\ s[i + 1] = c

validate_format_string_chars_only(format_str) ==
    /\ Len(format_str) > 0
    /\ \A i \in 1 .. Len(format_str) : format_str[i] \in AllowedChars

\* lines 242-259
validate_format_string(format_str) ==
    /\ Len(format_str) > 0
    /\ \A i \in 1 .. Len(format_str) : format_str[i] \in AllowedChars
    /\ ~(Len(format_str) > MaxFormatLen)
    /\ ~(HasAdjacent(format_str, ".") \/ HasAdjacent(format_str, "/"))

AutoVerifyConsume(sessions, session_token, video_id) == Remove(sessions, session_token)

\* verified_videos.add(video_id); the session itself stays in the table
AutoVerify(sessions, session_token, video_id) ==
    [sessions EXCEPT ![session_token].verified_videos = @ \cup {video_id}]

\* DownloadProgress.__init__
DownloadProgress(t) ==
    [status |-> "queued", progress |-> 0, filename |-> <<>>, error |-> "",
     temp_dir |-> NoId, title |-> "", completed |-> FALSE,
     downloaded_bytes |-> 0, total_bytes |-> 0,
     created_at |-> t, last_accessed |-> t]

\* the response of a get_download_status request that is not running
NoSnapshot == [job_id |-> NoId, status |-> "", progress |-> 0, filename |-> << >>]

\* the locals of cleanup_old_jobs while no run is in progress
NoSweeper == [pc |-> "idle", todo |-> {}, cur |-> NoId, target |-> NoId, raised |-> FALSE]

\* find_final_file_in_dir returning None
NoFile == [name |-> << >>, size |-> 0]

\* threads that take the table locks
NumThreads == 2

Threads == 1 .. NumThreads

\* lines 62-64
TableLocks == {"download_status_lock", "captcha_store_lock", "verified_sessions_lock"}

\* no lock held, no thread inside a handler
NoLocks == [owner |-> [l \in TableLocks |-> NoId],
            thread |-> [t \in Threads |-> [op |-> "idle", pc |-> 0]]]

\* no find_final_file_in_dir call made yet
NoScan == [returned |-> FALSE, temp_dir |-> [isdir |-> FALSE, entries |-> {}],
           title_hint |-> "", result |-> NoFile]

\* what a metadata probe produces: the info dictionary or the exception raised
ProbeOutcomes ==
    {[kind |-> "info", val |-> "video-a"], [kind |-> "info", val |-> "video-b"],
     [kind |-> "error", val |-> "DownloadError"], [kind |-> "error", val |-> "ExtractorError"]}

NoOutcome == [kind |-> "none", val |-> ""]

\* raise TimeoutException(...)
TimeoutRaised == [kind |-> "timeout", val |-> ""]

\* raise Exception("Unknown error in video info extraction")
UnknownRaised == [kind |-> "error", val |-> "Unknown error in video info extraction"]

\* timeout_seconds of the call in get_video_info
ProbeTimeout == 25

\* seconds the clock of a waiting caller advances in one step, and its cap
ProbeStep == 5

MaxElapsed == 30

\* no extract_video_info_with_timeout call made yet: the caller's position, the
\* worker thread's position, the two queues, the seconds waited in join, what
\* the extraction produces, what the caller got, and whether the deadline
\* passed while the thread was alive
NoProbe == [pc |-> "idle", thread |-> "none", result_queue |-> << >>,
            exception_queue |-> << >>, elapsed |-> 0, outcome |-> NoOutcome,
            reply |-> NoOutcome, expired_alive |-> FALSE]

\* the locals of a verify_captcha request that is not running
NoLocals == [captcha_id |-> NoId, user_input |-> NoInput, stored_code |-> 0,
             capped |-> FALSE, fresh |-> FALSE]

\* -------------------------------------------------------------------- Init
Init ==
    /\ now = 0
    /\ captcha_store = << >>
    /\ verified_sessions = << >>
    /\ download_status = {}
    /\ job = << >>
    /\ nextCaptcha = 0
    /\ nextToken = 0
    /\ nextJob = 0
    /\ vpc = [h \in Redeemers |-> "idle"]
    /\ vloc = [h \in Redeemers |-> NoLocals]
    /\ wpc = << >>
    /\ wloc = << >>
    /\ dirs = << >>
    /\ issued = << >>
    /\ wrong = [c \in CaptchaIds |-> 0]
    /\ minted = << >>
    /\ accepted = << >>
    /\ refused = {}
    /\ lapsed = {}
    /\ cb = << >>
    /\ ppc = "idle"
    /\ snap = NoSnapshot
    /\ served = {}
    /\ sweeps = 0
    /\ cleaner = << >>
    /\ sweeper = NoSweeper
    /\ scan = NoScan
    /\ probe = NoProbe
    /\ locks = NoLocks

\* time passes
Tick ==
    /\ now + TimeStep <= MaxTicks * TimeStep
    /\ now' = now + TimeStep
    /\ UNCHANGED <<auxVars, gateVars, redeemVars, jobVars, workerVars, histVars, clientVars>>

\* ------------------------------------------------------- verification gate
\* GET /api/generate-captcha: the HTTP status it answers with
generate_captcha_response(image_ok) == IF image_ok THEN 200 ELSE 500

\* GET /api/generate-captcha
generate_captcha(captcha_code, image_ok) ==
    /\ IF generate_captcha_response(image_ok) = 500
       THEN UNCHANGED <<gateVars, issued>>
       ELSE /\ nextCaptcha < MaxCaptchas
            /\ LET captcha_id == nextCaptcha + 1
                   entry == [code |-> captcha_code, expires |-> now + CaptchaTTL]
               IN /\ captcha_store' = SweptCaptchas(Put(captcha_store, captcha_id, entry), now)
                  /\ verified_sessions' = SweptSessions(verified_sessions, now)
                  /\ nextCaptcha' = captcha_id
                  /\ issued' = Put(issued, captcha_id, entry)
            /\ UNCHANGED nextToken
    /\ UNCHANGED <<auxVars, clientVars, now, redeemVars, jobVars, workerVars, wrong, minted, accepted, refused, lapsed>>

\* periodic schedule_cleanup, verification-gate half: cleanup_expired_captchas
cleanup_expired_captchas ==
    /\ captcha_store' = SweptCaptchas(captcha_store, now)
    /\ verified_sessions' = SweptSessions(verified_sessions, now)
    /\ UNCHANGED <<auxVars, clientVars, now, nextCaptcha, nextToken, redeemVars, jobVars, workerVars, histVars>>

\* the typed code differs from the code issued for this challenge
IsWrongFor(captcha_id, user_input) ==
    /\ captcha_id \in DOMAIN issued
    /\ strip(user_input) # code_str(issued[captcha_id].code)

\* POST /api/verify-captcha, lines 868-879: argument check and the sweep
vc_begin(h, captcha_id, user_input) ==
    /\ vpc[h] = "idle"
    /\ IF captcha_id = NoId \/ user_input = NoInput
       THEN UNCHANGED <<gateVars, redeemVars>>
       ELSE /\ captcha_store' = SweptCaptchas(captcha_store, now)
            /\ verified_sessions' = SweptSessions(verified_sessions, now)
            /\ vpc' = [vpc EXCEPT ![h] = "lock"]
            /\ vloc' = [vloc EXCEPT ![h] =
                   [captcha_id |-> captcha_id, user_input |-> user_input,
                    stored_code |-> 0, capped |-> FALSE, fresh |-> FALSE]]
            /\ UNCHANGED <<nextCaptcha, nextToken>>
    /\ UNCHANGED <<auxVars, clientVars, now, jobVars, workerVars, histVars>>

\* lines 882-900: what the section under captcha_store_lock answers, 0 to go on
vc_lock_response(h) ==
    IF vloc[h].captcha_id \notin DOMAIN captcha_store THEN 404
    ELSE IF captcha_expired(now, captcha_store[vloc[h].captcha_id].expires) THEN 400
    ELSE 0

\* lines 882-900: the section under captcha_store_lock
vc_lock(h) ==
    /\ vpc[h] = "lock"
    /\ LET captcha_id == vloc[h].captcha_id
       IN IF vc_lock_response(h) = 404
          THEN /\ vpc' = [vpc EXCEPT ![h] = "idle"]
               /\ vloc' = [vloc EXCEPT ![h] = NoLocals]
               /\ UNCHANGED captcha_store
          ELSE IF vc_lock_response(h) = 400
          THEN /\ captcha_store' = Remove(captcha_store, captcha_id)
               /\ vpc' = [vpc EXCEPT ![h] = "idle"]
               /\ vloc' = [vloc EXCEPT ![h] = NoLocals]
          ELSE /\ vloc' = [vloc EXCEPT ![h].stored_code = captcha_store[captcha_id].code,
                                       ![h].fresh = (now <= issued[captcha_id].expires),
                                       ![h].capped = (wrong[captcha_id] >= AttemptCap)]
               /\ captcha_store' = vc_pop(captcha_store, captcha_id)
               /\ vpc' = [vpc EXCEPT ![h] = "check"]
    /\ wrong' = IF IsWrongFor(vloc[h].captcha_id, vloc[h].user_input)
                THEN [wrong EXCEPT ![vloc[h].captcha_id] = Min(@ + 1, AttemptCap)]
                ELSE wrong
    /\ UNCHANGED <<auxVars, clientVars, now, verified_sessions, nextCaptcha, nextToken, jobVars, workerVars,
                   issued, minted, accepted, refused, lapsed>>

captcha_lock_ignored == TRUE

\* captcha_store_lock is free: no verify_captcha request is inside the section of
\* lines 882-900 (the other holders, lines 785-791 and 842-847, are single steps)
captcha_lock_free == \A h \in Redeemers : vpc[h] # "pop"

\* lines 882-897 taken apart from the pop: the lock is acquired, the challenge
\* looked up and its expiry tested; the request keeps the lock if it goes on
vl_lookup(h) ==
    /\ vpc[h] = "lock"
    /\ captcha_lock_free
    /\ LET captcha_id == vloc[h].captcha_id
       IN IF vc_lock_response(h) = 404
          THEN /\ vpc' = [vpc EXCEPT ![h] = "idle"]
               /\ vloc' = [vloc EXCEPT ![h] = NoLocals]
               /\ UNCHANGED captcha_store
          ELSE IF vc_lock_response(h) = 400
          THEN /\ captcha_store' = Remove(captcha_store, captcha_id)
               /\ vpc' = [vpc EXCEPT ![h] = "idle"]
               /\ vloc' = [vloc EXCEPT ![h] = NoLocals]
          ELSE /\ vloc' = [vloc EXCEPT ![h].stored_code = captcha_store[captcha_id].code,
                                       ![h].fresh = (now <= issued[captcha_id].expires),
                                       ![h].capped = (wrong[captcha_id] >= AttemptCap)]
               /\ UNCHANGED captcha_store
               /\ vpc' = [vpc EXCEPT ![h] = "pop"]
    /\ wrong' = IF IsWrongFor(vloc[h].captcha_id, vloc[h].user_input)
                THEN [wrong EXCEPT ![vloc[h].captcha_id] = Min(@ + 1, AttemptCap)]
                ELSE wrong
    /\ UNCHANGED <<auxVars, clientVars, now, verified_sessions, nextCaptcha, nextToken,
                   jobVars, workerVars, issued, minted, accepted, refused, lapsed>>

\* lines 899-900: the pop, after which the lock is released
vl_pop(h) ==
    /\ vpc[h] = "pop"
    /\ captcha_store' = vc_pop(captcha_store, vloc[h].captcha_id)
    /\ vpc' = [vpc EXCEPT ![h] = "check"]
    /\ UNCHANGED <<auxVars, clientVars, now, verified_sessions, nextCaptcha, nextToken,
                   vloc, jobVars, workerVars, histVars>>

\* lines 902-920: the status the comparison answers with
vc_check_response(h) ==
    IF vc_is_valid(vloc[h].user_input, vloc[h].stored_code) THEN 200 ELSE 400

\* lines 902-920: the comparison, and the session token under verified_sessions_lock
vc_check(h) ==
    /\ vpc[h] = "check"
    /\ IF vc_check_response(h) = 400
       THEN /\ refused' = refused \cup {vloc[h].captcha_id}
            /\ UNCHANGED <<verified_sessions, nextToken, minted>>
       ELSE /\ nextToken < MaxTokens
            /\ LET session_token == nextToken + 1
               IN /\ verified_sessions' = Put(verified_sessions, session_token,
                         [expires |-> now + SessionTTL, verified_videos |-> {}])
                  /\ nextToken' = session_token
                  /\ minted' = Put(minted, session_token,
                         [captcha_id |-> vloc[h].captcha_id,
                          matched |-> ~IsWrongFor(vloc[h].captcha_id, vloc[h].user_input),
                          fresh |-> vloc[h].fresh,
                          capped |-> vloc[h].capped,
                          expires |-> now + SessionTTL])
            /\ UNCHANGED refused
    /\ vpc' = [vpc EXCEPT ![h] = "idle"]
    /\ vloc' = [vloc EXCEPT ![h] = NoLocals]
    /\ UNCHANGED <<auxVars, clientVars, now, captcha_store, nextCaptcha, jobVars, workerVars,
                   issued, wrong, accepted, lapsed>>

\* POST /api/verify-video: the HTTP status it answers with
verify_video_response(session_token, url) ==
    IF session_token = NoId \/ url = "" THEN 400
    ELSE IF extract_video_id(url) = "" THEN 400
    ELSE IF session_token \notin DOMAIN verified_sessions THEN 403
    ELSE IF session_expired(now, verified_sessions[session_token].expires) THEN 403
    ELSE 200

\* POST /api/verify-video
verify_video(session_token, url) ==
    /\ IF verify_video_response(session_token, url) = 200
       THEN verified_sessions' =
                AutoVerify(verified_sessions, session_token, extract_video_id(url))
       ELSE IF /\ verify_video_response(session_token, url) = 403
               /\ session_token \in DOMAIN verified_sessions
       THEN verified_sessions' = Remove(verified_sessions, session_token)
       ELSE UNCHANGED verified_sessions
    /\ UNCHANGED <<auxVars, clientVars, now, captcha_store, nextCaptcha, nextToken, redeemVars, jobVars,
                   workerVars, histVars>>

\* ------------------------------------------------------------ job manager
\* lines 1193-1203: the request passes the argument checks made before the session check
ReachesSessionCheck(url, format_str) ==
    ~(url = "" \/ format_str = << >> \/ ~startswith_http(url) \/ extract_video_id(url) = "")

\* lines 1207, 1212: the token is in the session table and has not expired
SessionLive(session_token) ==
    /\ session_token # NoId
    /\ session_token \in DOMAIN verified_sessions
    /\ ~session_expired(now, verified_sessions[session_token].expires)

\* the records in the job table that are not finalized
NonFinalized == {j \in download_status : ~job[j].completed}

download_video_response_pooled(url, format_str, file_ext, session_token) ==
    IF ~ReachesSessionCheck(url, format_str) THEN 400
    ELSE IF ~SessionLive(session_token) THEN 403
    ELSE IF ~validate_format_string(format_str) \/ file_ext \notin {"mp4", "mp3"} THEN 400
    ELSE IF Cardinality(NonFinalized) >= PoolSize THEN 429
    ELSE 200

\* POST /api/download: the HTTP status it answers with
download_video_response(url, format_str, file_ext, session_token) ==
    IF ~ReachesSessionCheck(url, format_str) THEN 400
    ELSE IF ~SessionLive(session_token) THEN 403
    ELSE IF ~validate_format_string(format_str) \/ file_ext \notin {"mp4", "mp3"} THEN 400
    ELSE 200

\* POST /api/download.  is_format_available and check_ffmpeg change no state.
download_video(url, format_str, file_ext, session_token) ==
    /\ IF ~ReachesSessionCheck(url, format_str)
       THEN UNCHANGED <<verified_sessions, jobVars, workerVars, accepted, lapsed>>
       ELSE IF session_token = NoId \/ session_token \notin DOMAIN verified_sessions
       THEN UNCHANGED <<verified_sessions, jobVars, workerVars, accepted, lapsed>>
       ELSE IF session_expired(now, verified_sessions[session_token].expires)
       THEN /\ verified_sessions' = Remove(verified_sessions, session_token)
            /\ lapsed' = lapsed \cup {session_token}
            /\ UNCHANGED <<jobVars, workerVars, accepted>>
       ELSE /\ verified_sessions' =
                   AutoVerify(verified_sessions, session_token, extract_video_id(url))
            /\ UNCHANGED lapsed
            /\ IF download_video_response(url, format_str, file_ext, session_token) = 400
               THEN UNCHANGED <<jobVars, workerVars, accepted>>
               ELSE /\ nextJob < MaxJobs
                    /\ LET job_id == nextJob + 1
                       IN /\ nextJob' = job_id
                          /\ job' = Put(job, job_id, DownloadProgress(now))
                          /\ download_status' = download_status \cup {job_id}
                          /\ wpc' = Put(wpc, job_id, "start")
                          /\ wloc' = Put(wloc, job_id,
                                 [retry_count |-> 0, attempts |-> 0, slept |-> 0,
                                  final |-> << >>, outcomes |-> << >>])
                          /\ dirs' = dirs
                          /\ accepted' = Put(accepted, session_token,
                                 IF session_token \in DOMAIN accepted
                                 THEN accepted[session_token] + 1 ELSE 1)
    /\ UNCHANGED <<auxVars, clientVars, now, captcha_store, nextCaptcha, nextToken, redeemVars,
                   issued, wrong, minted, refused>>

\* safe_get_job: the lookup stamps last_accessed
Touched(j) ==
    IF j \in download_status THEN [job EXCEPT ![j].last_accessed = now] ELSE job

\* ------------------------------------------------------------ file system
\* A file name is its sequence of segments: <<"movie", ".mp4", ".part">>.
MovieFile == <<"movie", ".mp4">>

PartFile == <<"movie", ".mp4", ".part">>

\* what the collaborator may leave in the working directory when it returns
DirInputs == { {},
               {[name |-> MovieFile, size |-> MinFileSize]},
               {[name |-> MovieFile, size |-> MinFileSize - 1]},
               {[name |-> PartFile, size |-> MinFileSize]} }

TitleInputs == {"", "movie"}

EndsWithPart_never(name) == FALSE

\* f.endswith('.part')
EndsWithPart(name) == Len(name) > 0 /\ name[Len(name)] = ".part"

\* title_hint.replace('/', '_').replace('\\', '_').strip()
normalize_title(title_hint) == IF title_hint = "a/b" THEN "a_b" ELSE title_hint

\* os.path.basename(f).startswith(normalized)
StartsWith(name, prefix) == Len(name) > 0 /\ name[1] = prefix

Largest_unsorted(files) == files

\* the first element after sort(key=size, reverse=True): any file of the largest size
Largest(files) == {f \in files : \A g \in files : g.size <= f.size}

\* find_final_file_in_dir on an existing directory: the possible results, {} for None
find_final_file_in_dir(files, title_hint) ==
    LET kept == {f \in files : ~EndsWithPart(f.name)}
        matches == IF title_hint # ""
                   THEN {f \in kept : StartsWith(f.name, normalize_title(title_hint))}
                   ELSE {}
    IN IF kept = {} THEN {}
       ELSE IF matches # {} THEN Largest(matches)
       ELSE Largest(kept)

\* lines 215-219: the entries of the listing for which os.path.isfile holds
isfile_entries(entries) ==
    {[name |-> e.name, size |-> e.size] : e \in {x \in entries : x.isfile}}

\* the names a working directory may hold in a call of find_final_file_in_dir
OtherFile == <<"other", ".mp3">>

OtherPartFile == <<"other", ".mp3", ".part">>

SubDir == <<"sub">>

\* the file a video titled "a/b" is written to
SlashFile == <<"a_b", ".mp4">>

ScanSizes == {12000, 500000}

\* one entry or none for each name; SubDir is a directory, the others are files
ScanEntries(name) ==
    {{}} \cup {{[name |-> name, size |-> sz, isfile |-> name # SubDir]} : sz \in ScanSizes}

ScanListings ==
    {a \cup b \cup c \cup d :
        a \in ScanEntries(MovieFile), b \in ScanEntries(PartFile),
        c \in ScanEntries(OtherFile),
        d \in {{}, {[name |-> SubDir, size |-> 0, isfile |-> FALSE]},
                   {[name |-> OtherPartFile, size |-> 500000, isfile |-> TRUE]},
                   {[name |-> SlashFile, size |-> 12000, isfile |-> TRUE]}}}

ScanDirInputs ==
    {[isdir |-> TRUE, entries |-> l] : l \in ScanListings}
        \cup {[isdir |-> FALSE, entries |-> {}]}

ScanTitles == {"", "movie", "other", "a/b"}

\* find_final_file_in_dir(temp_dir, title_hint): one call, from line 211 on
scan_call(temp_dir, title_hint) ==
    /\ LET found == IF ~temp_dir.isdir THEN {}
                    ELSE find_final_file_in_dir(isfile_entries(temp_dir.entries),
                                                title_hint)
       IN \E r \in (IF found = {} THEN {NoFile} ELSE found) :
             scan' = [returned |-> TRUE, temp_dir |-> temp_dir,
                      title_hint |-> title_hint, result |-> r]
    /\ UNCHANGED <<cleaner, sweeper, probe, locks, clientVars, now, gateVars, redeemVars, jobVars,
                   workerVars, histVars>>

ProbeUnchanged ==
    UNCHANGED <<cleaner, sweeper, scan, locks, clientVars, now, gateVars, redeemVars, jobVars,
                workerVars, histVars>>

\* lines 1005-1018: fresh queues, thread.start(); o is what extract_info will do
pr_start(o) ==
    /\ probe.pc \in {"idle", "returned"}
    /\ probe.thread \in {"none", "ended"}
    /\ probe' = [NoProbe EXCEPT !.pc = "join", !.thread = "running", !.outcome = o]
    /\ ProbeUnchanged

\* time passes while the caller is in thread.join(timeout_seconds)
pr_wait ==
    /\ probe.pc = "join"
    /\ probe.elapsed < MaxElapsed
    /\ LET e == probe.elapsed + ProbeStep
       IN probe' = [probe EXCEPT
              !.elapsed = e,
              !.expired_alive = @ \/ (probe.elapsed < ProbeTimeout /\ e >= ProbeTimeout
                                         /\ probe.thread # "ended")]
    /\ ProbeUnchanged

\* lines 1009-1014, worker: result_queue.put(info) or exception_queue.put(e)
pr_put ==
    /\ probe.thread = "running"
    /\ probe' = [probe EXCEPT
           !.thread = "put",
           !.result_queue = IF probe.outcome.kind = "info"
                            THEN Append(@, probe.outcome) ELSE @,
           !.exception_queue = IF probe.outcome.kind = "error"
                               THEN Append(@, probe.outcome) ELSE @]
    /\ ProbeUnchanged

\* the worker function returns and the thread ends
pr_exit ==
    /\ probe.thread = "put"
    /\ probe' = [probe EXCEPT !.thread = "ended"]
    /\ ProbeUnchanged

\* line 1019: join returns because the thread ended within timeout_seconds
pr_join_done ==
    /\ probe.pc = "join"
    /\ probe.thread = "ended"
    /\ probe.elapsed < ProbeTimeout
    /\ probe' = [probe EXCEPT !.pc = "is_alive"]
    /\ ProbeUnchanged

\* line 1019: join returns because timeout_seconds have passed
pr_join_timeout ==
    /\ probe.pc = "join"
    /\ probe.elapsed >= ProbeTimeout
    /\ probe' = [probe EXCEPT !.pc = "is_alive"]
    /\ ProbeUnchanged

\* lines 1021-1022: if thread.is_alive(): raise TimeoutException
pr_is_alive ==
    /\ probe.pc = "is_alive"
    /\ probe' = IF probe.thread # "ended"
                THEN [probe EXCEPT !.pc = "returned", !.reply = TimeoutRaised]
                ELSE [probe EXCEPT !.pc = "queues"]
    /\ ProbeUnchanged

\* lines 1024-1030: the exception queue first, then the result queue
pr_read ==
    /\ probe.pc = "queues"
    /\ probe' = [probe EXCEPT
           !.pc = "returned",
           !.reply = IF probe.exception_queue # << >> THEN Head(probe.exception_queue)
                     ELSE IF probe.result_queue # << >> THEN Head(probe.result_queue)
                     ELSE UnknownRaised,
           !.exception_queue = IF @ # << >> THEN Tail(@) ELSE @,
           !.result_queue = IF probe.exception_queue = << >> /\ @ # << >>
                            THEN Tail(@) ELSE @]
    /\ ProbeUnchanged

\* ------------------------------------------------------------- table locks
\* lines 785 and 794: the two `with` blocks of cleanup_expired_captchas
SweepSections == <<"captcha_store_lock", "verified_sessions_lock">>

\* the `with` blocks each handler or thread enters, in program order
Sections(op) ==
    CASE op = "generate_captcha" -> <<"captcha_store_lock">> \o SweepSections
      [] op = "verify_captcha rejected" -> SweepSections \o <<"captcha_store_lock">>
      [] op = "verify_captcha valid" ->
            SweepSections \o <<"captcha_store_lock", "verified_sessions_lock">>
      [] op = "verify_video" -> <<"verified_sessions_lock">>
      [] op = "download_video rejected" -> <<"verified_sessions_lock">>
      [] op = "download_video accepted" ->
            <<"verified_sessions_lock", "download_status_lock">>
      [] op = "safe_get_job" -> <<"download_status_lock">>
      [] op = "schedule_cleanup_job" -> <<"download_status_lock", "download_status_lock">>
      [] op = "schedule_cleanup" ->
            <<"download_status_lock", "download_status_lock">> \o SweepSections

LockOps ==
    {"generate_captcha", "verify_captcha rejected", "verify_captcha valid", "verify_video",
     "download_video rejected", "download_video accepted", "safe_get_job",
     "schedule_cleanup_job", "schedule_cleanup"}

LockSteps_nested(op) ==
    LET S == Sections(op)
        n == Len(S)
    IN [i \in 1 .. 2 * n |->
           IF i <= n THEN [do |-> "acquire", lock |-> S[i]]
           ELSE [do |-> "release", lock |-> S[2 * n + 1 - i]]]

\* every `with` block is left before the next one is entered: acquire, release,
\* acquire, release, ...
LockSteps(op) ==
    LET S == Sections(op)
    IN [i \in 1 .. 2 * Len(S) |->
           [do |-> IF i % 2 = 1 THEN "acquire" ELSE "release", lock |-> S[(i + 1) \div 2]]]

LocksUnchanged ==
    UNCHANGED <<cleaner, sweeper, scan, probe, clientVars, now, gateVars, redeemVars, jobVars,
                workerVars, histVars>>

\* the step thread t takes next
NextLockStep(t) == LockSteps(locks.thread[t].op)[locks.thread[t].pc]

\* thread t with its next step done
Advanced(t) ==
    IF locks.thread[t].pc = Len(LockSteps(locks.thread[t].op))
    THEN [locks.thread EXCEPT ![t] = [op |-> "idle", pc |-> 0]]
    ELSE [locks.thread EXCEPT ![t].pc = @ + 1]

\* a request or a background thread enters handler op
lk_begin(t, op) ==
    /\ locks.thread[t].op = "idle"
    /\ locks' = [locks EXCEPT !.thread[t] = [op |-> op, pc |-> 1]]
    /\ LocksUnchanged

\* `with lock:` is entered; threading.Lock is not reentrant
lk_acquire(t) ==
    /\ locks.thread[t].op # "idle"
    /\ NextLockStep(t).do = "acquire"
    /\ locks.owner[NextLockStep(t).lock] = NoId
    /\ locks' = [owner |-> [locks.owner EXCEPT ![NextLockStep(t).lock] = t],
                 thread |-> Advanced(t)]
    /\ LocksUnchanged

\* the `with` block is left, by falling through, return or exception
lk_release(t) ==
    /\ locks.thread[t].op # "idle"
    /\ NextLockStep(t).do = "release"
    /\ locks' = [owner |-> [locks.owner EXCEPT ![NextLockStep(t).lock] = NoId],
                 thread |-> Advanced(t)]
    /\ LocksUnchanged

\* os.path.exists(path) for a path inside job j's working directory
Exists(j, name) == j \in DOMAIN dirs /\ \E f \in dirs[j] : f.name = name

SizeOf(j, name) == (CHOOSE f \in dirs[j] : f.name = name).size

\* ------------------------------------------------------------ progress hook
PctNone == [kind |-> "none", val |-> 0]

DownloadingEvents ==
    { [status |-> "downloading", pct |-> PctNone, downloaded_bytes |-> 1,
       total_bytes |-> 2, filename |-> << >>],
      [status |-> "downloading", pct |-> [kind |-> "num", val |-> 250],
       downloaded_bytes |-> 0, total_bytes |-> 0, filename |-> << >>],
      [status |-> "downloading", pct |-> [kind |-> "num", val |-> 1000],
       downloaded_bytes |-> 2, total_bytes |-> 2, filename |-> << >>],
      [status |-> "downloading", pct |-> [kind |-> "bad", val |-> 0],
       downloaded_bytes |-> 0, total_bytes |-> 0, filename |-> << >>] }

FinishedEvents ==
    { [status |-> "finished", pct |-> PctNone, downloaded_bytes |-> 0,
       total_bytes |-> 0, filename |-> f] : f \in {<< >>, MovieFile} }

ErrorEvents ==
    { [status |-> "error", pct |-> PctNone, downloaded_bytes |-> 0,
       total_bytes |-> 0, filename |-> << >>] }

HookEvents == DownloadingEvents \cup FinishedEvents \cup ErrorEvents

\* lines 168-183: the percentage a 'downloading' event leaves in job.progress
HookPercent(old, d) ==
    IF d.pct.kind = "num" THEN Min(d.pct.val, 999)
    ELSE IF d.pct.kind = "bad" THEN old
    ELSE IF d.total_bytes # 0 /\ d.downloaded_bytes # 0
    THEN Min((d.downloaded_bytes * 1000) \div d.total_bytes, 999)
    ELSE old

\* lines 163-206: the fields one event writes on a record that is not completed
HookUpdate(rec, d) ==
    CASE d.status = "downloading" ->
            [rec EXCEPT !.status = "downloading",
                        !.progress = HookPercent(rec.progress, d),
                        !.downloaded_bytes = d.downloaded_bytes,
                        !.total_bytes = d.total_bytes]
      [] d.status = "finished" ->
            [rec EXCEPT !.progress = 999,
                        !.downloaded_bytes = rec.total_bytes,
                        !.filename = IF d.filename # << >> THEN d.filename ELSE @]
      [] OTHER ->
            [rec EXCEPT !.status = "error", !.error = "Unknown error reported by yt-dlp"]

\* progress_hook_factory(job_id).hook(d), called by the collaborator during its call
hook(j, d) ==
    /\ j \in DOMAIN wpc
    /\ wpc[j] = "call"
    /\ job' = IF j \notin download_status \/ job[j].completed
              THEN Touched(j)
              ELSE [Touched(j) EXCEPT ![j] = HookUpdate(@, d)]
    /\ UNCHANGED <<auxVars, clientVars, now, gateVars, redeemVars, download_status, nextJob, workerVars,
                   histVars>>

\* lines 164-206: the writes of one event, made after the check of line 160 let it
\* through; only the 'finished' and 'error' branches read job.completed again
HookWrite(rec, d) ==
    CASE d.status = "downloading" -> HookUpdate(rec, d)
      [] d.status = "finished" ->
            [(IF rec.completed THEN rec
              ELSE [rec EXCEPT !.progress = 999, !.downloaded_bytes = rec.total_bytes])
                EXCEPT !.filename = IF d.filename # << >> THEN d.filename ELSE @]
      [] OTHER -> IF rec.completed THEN rec ELSE HookUpdate(rec, d)

\* lines 159-161 of a hook call made on a thread of the collaborator: the lookup
\* and the check of job.completed, taken without any lock
cb_latch(j, d) ==
    /\ j \in DOMAIN wpc
    /\ wpc[j] # "start"
    /\ j \notin DOMAIN cb
    /\ job' = Touched(j)
    /\ cb' = IF j \notin download_status \/ job[j].completed THEN cb ELSE Put(cb, j, d)
    /\ UNCHANGED <<auxVars, ppc, snap, served, sweeps, now, gateVars, redeemVars, download_status,
                   nextJob, workerVars, histVars>>

\* lines 163-206 of that call: the writes, on the object the lookup returned
cb_write(j) ==
    /\ j \in DOMAIN cb
    /\ job' = [job EXCEPT ![j] = HookWrite(@, cb[j])]
    /\ cb' = Remove(cb, j)
    /\ UNCHANGED <<auxVars, ppc, snap, served, sweeps, now, gateVars, redeemVars, download_status,
                   nextJob, workerVars, histVars>>

\* --------------------------------------------------------- download worker
\* An error message is the set of the known phrases its lower-cased text contains.
BotPhrases == {"sign in to confirm", "confirm you're not a bot"}

non_retryable_errors ==
    {"requested format is not available", "private video", "video unavailable",
     "this video is not available", "no video formats found", "this video is private"}

retryable_errors ==
    {"http error 403", "http error 429", "forbidden", "too many requests",
     "age restricted", "rate limit"}

ErrorInputs ==
    { {"sign in to confirm"}, {"private video"}, {"requested format is not available"},
      {"video unavailable", "http error 403"}, {"this video is not available"},
      {"http error 429"}, {"rate limit"}, {"age restricted"}, {} }

is_fatal_never(error_msg) == FALSE

\* lines 496 and 512: the message holds a bot-detection or a non-retryable phrase
is_fatal(error_msg) ==
    error_msg \cap BotPhrases # {} \/ error_msg \cap non_retryable_errors # {}

may_retry_once_more(retry_count) == retry_count < max_retries

\* line 537: a retryable error is retried unless this was the last attempt
may_retry(retry_count) == retry_count < max_retries - 1

wait_time_one_less(retry_count) == Min(2 ^ retry_count, BackoffCap)

\* line 538: wait_time = min(2 ** (retry_count + 1), 30)
wait_time(retry_count) == Min(2 ^ (retry_count + 1), BackoffCap)

Failed_unlatched(rec, detail) == [rec EXCEPT !.status = "error", !.error = detail]

\* status, error and completed as every failing exit of the worker sets them
Failed(rec, detail) == [rec EXCEPT !.status = "error", !.error = detail, !.completed = TRUE]

handle_download_error_retry_first(rec, error_msg, retry_count) ==
    IF error_msg \cap retryable_errors # {} /\ may_retry(retry_count)
    THEN [rec |-> rec, retry |-> TRUE, wait |-> wait_time(retry_count)]
    ELSE [rec |-> Failed(rec, "Download failed"), retry |-> FALSE, wait |-> 0]

\* handle_download_error: the record it leaves, whether to retry, and the sleep before
handle_download_error(rec, error_msg, retry_count) ==
    IF is_fatal(error_msg) /\ error_msg \cap BotPhrases # {}
    THEN [rec |-> Failed(rec, "Bot detection triggered"), retry |-> FALSE, wait |-> 0]
    ELSE IF is_fatal(error_msg)
    THEN [rec |-> Failed(rec,
                    IF "requested format is not available" \in error_msg
                    THEN "The requested quality is not available"
                    ELSE IF "private video" \in error_msg
                    THEN "This video is private"
                    ELSE IF "video unavailable" \in error_msg
                    THEN "This video is unavailable"
                    ELSE "Download failed"),
          retry |-> FALSE, wait |-> 0]
    ELSE IF error_msg \cap retryable_errors # {}
    THEN IF may_retry(retry_count)
         THEN [rec |-> rec, retry |-> TRUE, wait |-> wait_time(retry_count)]
         ELSE [rec |-> Failed(rec, "YouTube is blocking downloads"),
               retry |-> FALSE, wait |-> 0]
    ELSE [rec |-> Failed(rec, "Download failed"), retry |-> FALSE, wait |-> 0]

\* lines 555-580: lookup, mkdtemp, reset of the record, first collaborator call
w_start(j) ==
    /\ j \in DOMAIN wpc
    /\ wpc[j] = "start"
    /\ IF j \notin download_status
       THEN /\ wpc' = [wpc EXCEPT ![j] = "done"]
            /\ UNCHANGED <<job, wloc, dirs>>
       ELSE /\ job' = [Touched(j) EXCEPT ![j].temp_dir = j,
                                         ![j].status = "downloading",
                                         ![j].progress = 0,
                                         ![j].downloaded_bytes = 0,
                                         ![j].total_bytes = 0]
            /\ dirs' = Put(dirs, j, {})
            /\ wloc' = [wloc EXCEPT ![j].attempts = 1]
            /\ wpc' = [wpc EXCEPT ![j] = "call"]
    /\ UNCHANGED <<auxVars, clientVars, now, gateVars, redeemVars, download_status, nextJob, histVars>>

\* lines 580-585: extract_info returns normally, having written its output files
w_return(j, title, files) ==
    /\ j \in DOMAIN wpc
    /\ wpc[j] = "call"
    /\ job' = IF title # "" THEN [job EXCEPT ![j].title = title] ELSE job
    /\ dirs' = IF j \in DOMAIN dirs THEN [dirs EXCEPT ![j] = files] ELSE dirs
    /\ wpc' = [wpc EXCEPT ![j] = "resolve"]
    /\ UNCHANGED <<auxVars, clientVars, now, gateVars, redeemVars, download_status, nextJob, wloc,
                   histVars>>

\* lines 587-613: the candidates for the final file, in the order the code tries them.
\* requested_downloads (606-613) names files of the same directory the scan has
\* already listed, so it adds no candidate.
Resolved(j) ==
    IF job[j].filename # << >> /\ Exists(j, job[j].filename)
    THEN {job[j].filename}
    ELSE IF job[j].title # "" /\ Exists(j, <<job[j].title, ".mp4">>)
    THEN {<<job[j].title, ".mp4">>}
    ELSE IF j \in DOMAIN dirs
    THEN {f.name : f \in find_final_file_in_dir(dirs[j], job[j].title)}
    ELSE {}

\* lines 587-615 and 641-646
w_resolve(j) ==
    /\ j \in DOMAIN wpc
    /\ wpc[j] = "resolve"
    /\ IF Resolved(j) = {}
       THEN /\ job' = [job EXCEPT ![j] =
                          Failed(@, "Could not determine final output filename")]
            /\ wpc' = [wpc EXCEPT ![j] = "cleanup"]
            /\ UNCHANGED wloc
       ELSE /\ \E final \in Resolved(j) : wloc' = [wloc EXCEPT ![j].final = final]
            /\ wpc' = [wpc EXCEPT ![j] = "set_filename"]
            /\ UNCHANGED job
    /\ UNCHANGED <<auxVars, clientVars, now, gateVars, redeemVars, download_status, nextJob, dirs,
                   histVars>>

WorkerStep(j, from, to) ==
    /\ j \in DOMAIN wpc
    /\ wpc[j] = from
    /\ wpc' = [wpc EXCEPT ![j] = to]
    /\ UNCHANGED <<auxVars, clientVars, now, gateVars, redeemVars, download_status, nextJob, wloc, dirs,
                   histVars>>

\* line 617: job.filename = final
w_set_filename(j) ==
    /\ WorkerStep(j, "set_filename", "set_status")
    /\ job' = [job EXCEPT ![j].filename = wloc[j].final]

completed_status_unset == "downloading"

\* the value line 618 stores
completed_status == "completed"

\* line 618: job.status = 'completed'
w_set_status(j) ==
    /\ WorkerStep(j, "set_status", "set_progress")
    /\ job' = [job EXCEPT ![j].status = completed_status]

\* line 619: job.progress = 100.0
w_set_progress(j) ==
    /\ WorkerStep(j, "set_progress", "set_completed")
    /\ job' = [job EXCEPT ![j].progress = 1000]

\* line 620: job.completed = True
w_set_completed(j) ==
    /\ WorkerStep(j, "set_completed", "set_bytes")
    /\ job' = [job EXCEPT ![j].completed = TRUE]

\* lines 622-627: byte counters from the real file size, if it can be read
w_set_bytes(j) ==
    /\ WorkerStep(j, "set_bytes", "check_size")
    /\ job' = IF Exists(j, wloc[j].final)
              THEN [job EXCEPT ![j].downloaded_bytes = SizeOf(j, wloc[j].final),
                               ![j].total_bytes = SizeOf(j, wloc[j].final)]
              ELSE job

\* lines 629-640: the minimum-size check, after the record was marked completed
w_check_size(j) ==
    /\ WorkerStep(j, "check_size", "cleanup")
    /\ job' = IF Exists(j, wloc[j].final) /\ SizeOf(j, wloc[j].final) < MinFileSize
              THEN [job EXCEPT ![j].status = "error",
                               ![j].error = "Downloaded file is too small or corrupted"]
              ELSE job

\* lines 648-654: extract_info raises DownloadError
w_download_error(j, error_msg) ==
    /\ j \in DOMAIN wpc
    /\ wpc[j] = "call"
    /\ LET r == handle_download_error(job[j], error_msg, wloc[j].retry_count)
       IN /\ job' = [job EXCEPT ![j] = r.rec]
          /\ IF r.retry /\ wloc[j].retry_count + 1 < max_retries
             THEN /\ wloc' = [wloc EXCEPT ![j].retry_count = @ + 1,
                                          ![j].attempts = @ + 1,
                                          ![j].slept = @ + r.wait,
                                          ![j].outcomes = Append(@, error_msg)]
                  /\ wpc' = wpc
             ELSE /\ wpc' = [wpc EXCEPT ![j] = "cleanup"]
                  /\ wloc' = [wloc EXCEPT ![j].retry_count =
                                              IF r.retry THEN @ + 1 ELSE @,
                                          ![j].slept = @ + r.wait,
                                          ![j].outcomes = Append(@, error_msg)]
    /\ UNCHANGED <<auxVars, clientVars, now, gateVars, redeemVars, download_status, nextJob, dirs,
                   histVars>>

\* what the history of a job's attempts records for an exception that is not a
\* DownloadError
OtherException == {"exception"}

\* lines 656-666: extract_info raises any other exception
w_exception(j) ==
    /\ j \in DOMAIN wpc
    /\ wpc[j] = "call"
    /\ IF wloc[j].retry_count + 1 < max_retries
       THEN /\ wloc' = [wloc EXCEPT ![j].retry_count = @ + 1,
                                    ![j].attempts = @ + 1,
                                    ![j].slept = @ + ExceptionSleep,
                                    ![j].outcomes = Append(@, OtherException)]
            /\ UNCHANGED <<job, wpc>>
       ELSE /\ wloc' = [wloc EXCEPT ![j].retry_count = @ + 1,
                                    ![j].outcomes = Append(@, OtherException)]
            /\ job' = [job EXCEPT ![j] = Failed(@, "Unexpected error")]
            /\ wpc' = [wpc EXCEPT ![j] = "cleanup"]
    /\ UNCHANGED <<auxVars, clientVars, now, gateVars, redeemVars, download_status, nextJob, dirs,
                   histVars>>

delete_on_exit_unless_latched(rec) ==
    rec.status = "error" /\ rec.temp_dir # NoId /\ ~rec.completed

\* line 668: `job.status == 'error' and job.temp_dir`
delete_on_exit(rec) == rec.status = "error" /\ rec.temp_dir # NoId

\* lines 668-673: delete the working directory of a failed job
w_cleanup(j) ==
    /\ j \in DOMAIN wpc
    /\ wpc[j] = "cleanup"
    /\ wpc' = [wpc EXCEPT ![j] = "done"]
    /\ dirs' = IF delete_on_exit(job[j]) /\ job[j].temp_dir \in DOMAIN dirs
               THEN Remove(dirs, job[j].temp_dir)
               ELSE dirs
    /\ UNCHANGED <<auxVars, clientVars, now, gateVars, redeemVars, jobVars, wloc, histVars>>

\* ------------------------------------------------------- status and delivery
get_download_status_response_stale(j) == IF j \in DOMAIN job THEN 200 ELSE 404

\* line 1256-1258: the lookup of get_download_status and its answer when it fails
get_download_status_response(j) == IF j \in download_status THEN 200 ELSE 404

\* lines 1256-1258: safe_get_job, which stamps last_accessed and releases the lock
poll_begin(j) ==
    /\ ppc = "idle"
    /\ job' = Touched(j)
    /\ IF get_download_status_response(j) = 404
       THEN UNCHANGED <<ppc, snap>>
       ELSE /\ ppc' = "status"
            /\ snap' = [NoSnapshot EXCEPT !.job_id = j]
    /\ UNCHANGED <<auxVars, cb, served, sweeps, now, gateVars, redeemVars, download_status, nextJob,
                   workerVars, histVars>>

PollStep(from, to) ==
    /\ ppc = from
    /\ ppc' = to
    /\ UNCHANGED <<auxVars, cb, served, sweeps, now, gateVars, redeemVars, jobVars, workerVars,
                   histVars>>

\* line 1261: 'status': job.status, read from the live object with no lock held
poll_status ==
    /\ PollStep("status", "progress")
    /\ snap' = [snap EXCEPT !.status = job[snap.job_id].status]

\* line 1262: 'progress': job.progress
poll_progress ==
    /\ PollStep("progress", "filename")
    /\ snap' = [snap EXCEPT !.progress = job[snap.job_id].progress]

\* line 1263: 'filename': job.filename
poll_filename ==
    /\ PollStep("filename", "reply")
    /\ snap' = [snap EXCEPT !.filename = job[snap.job_id].filename]

\* line 1277: return jsonify(response_data)
poll_reply ==
    /\ PollStep("reply", "idle")
    /\ snap' = NoSnapshot

\* lines 1288-1292: the file download_file sends, job.filename if it exists and
\* else the scan of the working directory
FileToSend(j) ==
    IF job[j].filename # << >> /\ Exists(j, job[j].filename)
    THEN {job[j].filename}
    ELSE IF j \in DOMAIN dirs
    THEN {f.name : f \in find_final_file_in_dir(dirs[j], job[j].title)}
    ELSE {}

\* lines 1281-1295. Every file of the model lies in the job's own working
\* directory, so the path check of lines 1297-1306 passes.
download_file_response(j) ==
    IF j \notin download_status THEN 404
    ELSE IF job[j].status # "completed" THEN 400
    ELSE IF FileToSend(j) = {} THEN 404
    ELSE 200

\* download_file(job_id): sends the file and starts the delayed cleanup thread
download_file(j) ==
    /\ job' = Touched(j)
    /\ IF download_file_response(j) = 200
       THEN \E f \in FileToSend(j) :
               served' = served \cup {[job_id |-> j, size |-> SizeOf(j, f), at |-> now,
                                       pending |-> TRUE]}
       ELSE UNCHANGED served
    /\ UNCHANGED <<auxVars, cb, ppc, snap, sweeps, now, gateVars, redeemVars, download_status,
                   nextJob, workerVars, histVars>>

\* lines 1316-1325: the thread download_file started, once its sleep is over
schedule_cleanup_job(j) ==
    /\ \E s \in served :
          /\ s.job_id = j
          /\ s.pending
          /\ now >= s.at + DeliveryDelay
          /\ served' = (served \ {s}) \cup {[s EXCEPT !.pending = FALSE]}
    /\ job' = Touched(j)
    /\ dirs' = IF j \in download_status /\ job[j].temp_dir \in DOMAIN dirs
               THEN Remove(dirs, job[j].temp_dir)
               ELSE dirs
    /\ download_status' = download_status \ {j}
    /\ UNCHANGED <<auxVars, cb, ppc, snap, sweeps, now, gateVars, redeemVars, nextJob, wpc, wloc,
                   histVars>>

\* ------------------------------------------------------------ retention sweep
job_expired_at_limit(rec, t) ==
    \/ t - rec.created_at >= MaxJobAge
    \/ (rec.completed /\ t - rec.last_accessed > IdleWindow)

\* lines 975-976: the condition under which the sweep takes a record
job_expired(rec, t) ==
    \/ t - rec.created_at > MaxJobAge
    \/ (rec.completed /\ t - rec.last_accessed > IdleWindow)

\* lines 972-977
expired_jobs == {j \in download_status : job_expired(job[j], now)}

\* cleanup_old_jobs(): one run of the sweep
cleanup_old_jobs ==
    /\ sweeps < MaxSweeps
    /\ sweeps' = sweeps + 1
    /\ dirs' = [d \in DOMAIN dirs \ {job[j].temp_dir : j \in expired_jobs} |-> dirs[d]]
    /\ download_status' = download_status \ expired_jobs
    /\ UNCHANGED <<auxVars, cb, ppc, snap, served, now, gateVars, redeemVars, job, nextJob, wpc,
                   wloc, histVars>>

\* line 1335: the time from one run of the sweep to the next goes by
SweepTick ==
    /\ now + SweepInterval <= MaxSweeps * SweepInterval
    /\ now' = now + SweepInterval
    /\ UNCHANGED <<auxVars, gateVars, redeemVars, jobVars, workerVars, histVars, clientVars>>

\* ------------------------------------------------- deletion, step by step
\* shutil.rmtree(path): removes the directory; raises if the path is already gone
rmtree(ds, d) == [dirs |-> Remove(ds, d), raised |-> d \notin DOMAIN ds]

after_rmtree_uncaught(raised) == IF raised THEN "failed" ELSE "pop"
\* lines 981-985 and 1320-1324: rmtree runs inside try/except Exception, so the
\* actor goes on to safe_remove_job whether or not rmtree raised
after_rmtree(raised) == "pop"

\* `job.temp_dir and os.path.exists(job.temp_dir)` for the job object the actor holds
next_after_check(target) ==
    IF target # NoId /\ target \in DOMAIN dirs THEN "rmtree" ELSE "pop"

\* lines 1317-1319: the sleep is over; safe_get_job and the test of the directory
sc_lookup(s) ==
    /\ s \in served
    /\ s.pending
    /\ s \notin DOMAIN cleaner
    /\ now >= s.at + DeliveryDelay
    /\ job' = Touched(s.job_id)
    /\ served' = (served \ {s}) \cup {[s EXCEPT !.pending = FALSE]}
    /\ LET target == IF s.job_id \in download_status THEN job[s.job_id].temp_dir ELSE NoId
       IN cleaner' = Put(cleaner, s, [pc |-> next_after_check(target), target |-> target,
                                      raised |-> FALSE])
    /\ UNCHANGED <<sweeper, scan, probe, locks, cb, ppc, snap, sweeps, now, gateVars, redeemVars,
                   download_status, nextJob, workerVars, histVars>>

\* lines 1320-1324
sc_rmtree(s) ==
    /\ s \in DOMAIN cleaner
    /\ cleaner[s].pc = "rmtree"
    /\ LET r == rmtree(dirs, cleaner[s].target)
       IN /\ dirs' = r.dirs
          /\ cleaner' = [cleaner EXCEPT ![s].pc = after_rmtree(r.raised),
                                        ![s].raised = r.raised]
    /\ UNCHANGED <<sweeper, scan, probe, locks, clientVars, now, gateVars, redeemVars, jobVars,
                   wpc, wloc, histVars>>

\* line 1325: safe_remove_job(job_id_inner)
sc_pop(s) ==
    /\ s \in DOMAIN cleaner
    /\ cleaner[s].pc = "pop"
    /\ download_status' = download_status \ {s.job_id}
    /\ cleaner' = [cleaner EXCEPT ![s].pc = "done"]
    /\ UNCHANGED <<sweeper, scan, probe, locks, clientVars, now, gateVars, redeemVars, job,
                   nextJob, workerVars, histVars>>

\* lines 969-977: the list of expired jobs, taken under download_status_lock
sw_collect ==
    /\ sweeper.pc = "idle"
    /\ sweeps < MaxSweeps
    /\ sweeps' = sweeps + 1
    /\ sweeper' = [NoSweeper EXCEPT !.pc = IF expired_jobs = {} THEN "idle" ELSE "next",
                                    !.todo = expired_jobs]
    /\ UNCHANGED <<cleaner, scan, probe, locks, cb, ppc, snap, served, now, gateVars, redeemVars,
                   jobVars, workerVars, histVars>>

\* lines 979-980: the next job of the list and the test of its directory
sw_check(j) ==
    /\ sweeper.pc = "next"
    /\ j \in sweeper.todo
    /\ sweeper' = [sweeper EXCEPT !.cur = j,
                                  !.target = job[j].temp_dir,
                                  !.raised = FALSE,
                                  !.pc = next_after_check(job[j].temp_dir)]
    /\ UNCHANGED <<cleaner, scan, probe, locks, clientVars, now, gateVars, redeemVars, jobVars,
                   workerVars, histVars>>

\* lines 981-985
sw_rmtree ==
    /\ sweeper.pc = "rmtree"
    /\ LET r == rmtree(dirs, sweeper.target)
       IN /\ dirs' = r.dirs
          /\ sweeper' = [sweeper EXCEPT !.pc = after_rmtree(r.raised),
                                        !.raised = r.raised]
    /\ UNCHANGED <<cleaner, scan, probe, locks, clientVars, now, gateVars, redeemVars, jobVars,
                   wpc, wloc, histVars>>

\* line 986: safe_remove_job(job_id), then the next job of the list
sw_pop ==
    /\ sweeper.pc = "pop"
    /\ download_status' = download_status \ {sweeper.cur}
    /\ sweeper' = [sweeper EXCEPT !.todo = @ \ {sweeper.cur},
                                  !.pc = IF sweeper.todo \ {sweeper.cur} = {}
                                         THEN "idle" ELSE "next"]
    /\ UNCHANGED <<cleaner, scan, probe, locks, clientVars, now, gateVars, redeemVars, job,
                   nextJob, workerVars, histVars>>

\* -------------------------------------------------------------------- Next
Next ==
    \/ Tick
    \/ \E c \in Codes, ok \in BOOLEAN : generate_captcha(c, ok)
    \/ cleanup_expired_captchas
    \/ \E h \in Redeemers, c \in CaptchaIds \cup {NoId}, u \in UserInputs : vc_begin(h, c, u)
    \/ \E h \in Redeemers : vc_lock(h)
    \/ \E h \in Redeemers : vc_check(h)
    \/ \E t \in Tokens \cup {NoId}, u \in UrlInputs : verify_video(t, u)
    \/ \E u \in UrlInputs, f \in FormatInputs, e \in ExtInputs, t \in Tokens \cup {NoId} :
          download_video(u, f, e, t)
    \/ \E j \in JobIds : w_start(j)
    \/ \E j \in JobIds, d \in HookEvents : hook(j, d)
    \/ \E j \in JobIds, t \in TitleInputs, fs \in DirInputs : w_return(j, t, fs)
    \/ \E j \in JobIds : w_resolve(j)
    \/ \E j \in JobIds : w_set_filename(j)
    \/ \E j \in JobIds : w_set_status(j)
    \/ \E j \in JobIds : w_set_progress(j)
    \/ \E j \in JobIds : w_set_completed(j)
    \/ \E j \in JobIds : w_set_bytes(j)
    \/ \E j \in JobIds : w_check_size(j)
    \/ \E j \in JobIds, m \in ErrorInputs : w_download_error(j, m)
    \/ \E j \in JobIds : w_exception(j)
    \/ \E j \in JobIds : w_cleanup(j)
    \/ \E j \in JobIds, d \in HookEvents : cb_latch(j, d)
    \/ \E j \in JobIds : cb_write(j)
    \/ \E j \in JobIds : poll_begin(j)
    \/ poll_status
    \/ poll_progress
    \/ poll_filename
    \/ poll_reply
    \/ \E j \in JobIds : download_file(j)
    \/ \E j \in JobIds : schedule_cleanup_job(j)
    \/ cleanup_old_jobs
    \/ SweepTick
    \/ \E s \in served : sc_lookup(s)
    \/ \E s \in DOMAIN cleaner : sc_rmtree(s)
    \/ \E s \in DOMAIN cleaner : sc_pop(s)
    \/ sw_collect
    \/ \E j \in JobIds : sw_check(j)
    \/ sw_rmtree
    \/ sw_pop
    \/ \E h \in Redeemers : vl_lookup(h)
    \/ \E h \in Redeemers : vl_pop(h)
    \/ \E temp_dir \in ScanDirInputs, title_hint \in ScanTitles :
          scan_call(temp_dir, title_hint)
    \/ \E o \in ProbeOutcomes : pr_start(o)
    \/ pr_wait
    \/ pr_put
    \/ pr_exit
    \/ pr_join_done
    \/ pr_join_timeout
    \/ pr_is_alive
    \/ pr_read
    \/ \E t \in Threads, op \in LockOps : lk_begin(t, op)
    \/ \E t \in Threads : lk_acquire(t)
    \/ \E t \in Threads : lk_release(t)

Spec == Init /\ [][Next]_vars

\* The verification gate and the submission endpoint; accepted jobs wait for their
\* worker thread to be scheduled.
GateNext ==
    \/ Tick
    \/ \E c \in Codes, ok \in BOOLEAN : generate_captcha(c, ok)
    \/ cleanup_expired_captchas
    \/ \E h \in Redeemers, c \in CaptchaIds \cup {NoId}, u \in UserInputs : vc_begin(h, c, u)
    \/ \E h \in Redeemers : vc_lock(h)
    \/ \E h \in Redeemers : vc_check(h)
    \/ \E t \in Tokens \cup {NoId}, u \in UrlInputs : verify_video(t, u)
    \/ \E u \in UrlInputs, f \in FormatInputs, e \in ExtInputs, t \in Tokens \cup {NoId} :
          download_video(u, f, e, t)

GateSpec == Init /\ [][GateNext]_vars

\* The download workers and their progress hooks, with one well-behaved client
\* that solves a captcha and submits valid requests.
WorkerNext ==
    \/ generate_captcha(MinCode, TRUE)
    \/ \E c \in CaptchaIds : vc_begin(1, c, code_str(MinCode))
    \/ vc_lock(1)
    \/ vc_check(1)
    \/ /\ nextJob < NumWorkers
       /\ \E t \in Tokens : download_video("https://youtu.be/v1", <<"b">>, "mp4", t)
    \/ \E j \in WorkerJobs : w_start(j)
    \/ \E j \in WorkerJobs, d \in HookEvents : hook(j, d)
    \/ \E j \in WorkerJobs, t \in TitleInputs, fs \in DirInputs : w_return(j, t, fs)
    \/ \E j \in WorkerJobs : w_resolve(j)
    \/ \E j \in WorkerJobs : w_set_filename(j)
    \/ \E j \in WorkerJobs : w_set_status(j)
    \/ \E j \in WorkerJobs : w_set_progress(j)
    \/ \E j \in WorkerJobs : w_set_completed(j)
    \/ \E j \in WorkerJobs : w_set_bytes(j)
    \/ \E j \in WorkerJobs : w_check_size(j)
    \/ \E j \in WorkerJobs, m \in ErrorInputs : w_download_error(j, m)
    \/ \E j \in WorkerJobs : w_exception(j)
    \/ \E j \in WorkerJobs : w_cleanup(j)

WorkerSpec == Init /\ [][WorkerNext]_vars

\* The success path of one worker with the hook calls arriving on a thread of
\* the collaborator, so that a call's check and its writes are separate steps.
CallbackNext ==
    \/ generate_captcha(MinCode, TRUE)
    \/ \E c \in CaptchaIds : vc_begin(1, c, code_str(MinCode))
    \/ vc_lock(1)
    \/ vc_check(1)
    \/ /\ nextJob < NumWorkers
       /\ \E t \in Tokens : download_video("https://youtu.be/v1", <<"b">>, "mp4", t)
    \/ \E j \in WorkerJobs : w_start(j)
    \/ \E j \in WorkerJobs, d \in HookEvents : cb_latch(j, d)
    \/ \E j \in WorkerJobs : cb_write(j)
    \/ \E j \in WorkerJobs, t \in TitleInputs, fs \in DirInputs : w_return(j, t, fs)
    \/ \E j \in WorkerJobs : w_resolve(j)
    \/ \E j \in WorkerJobs : w_set_filename(j)
    \/ \E j \in WorkerJobs : w_set_status(j)
    \/ \E j \in WorkerJobs : w_set_progress(j)
    \/ \E j \in WorkerJobs : w_set_completed(j)
    \/ \E j \in WorkerJobs : w_set_bytes(j)
    \/ \E j \in WorkerJobs : w_check_size(j)
    \/ \E j \in WorkerJobs : w_cleanup(j)

CallbackSpec == Init /\ [][CallbackNext]_vars

\* One worker on its success path with a client that polls the status of the job
\* and asks for its file while the worker runs.
PollNext ==
    \/ generate_captcha(MinCode, TRUE)
    \/ \E c \in CaptchaIds : vc_begin(1, c, code_str(MinCode))
    \/ vc_lock(1)
    \/ vc_check(1)
    \/ /\ nextJob < NumWorkers
       /\ \E t \in Tokens : download_video("https://youtu.be/v1", <<"b">>, "mp4", t)
    \/ \E j \in WorkerJobs : w_start(j)
    \/ \E j \in WorkerJobs, d \in DownloadingEvents : hook(j, d)
    \/ \E j \in WorkerJobs, t \in TitleInputs, fs \in DirInputs : w_return(j, t, fs)
    \/ \E j \in WorkerJobs : w_resolve(j)
    \/ \E j \in WorkerJobs : w_set_filename(j)
    \/ \E j \in WorkerJobs : w_set_status(j)
    \/ \E j \in WorkerJobs : w_set_progress(j)
    \/ \E j \in WorkerJobs : w_set_completed(j)
    \/ \E j \in WorkerJobs : w_set_bytes(j)
    \/ \E j \in WorkerJobs : w_check_size(j)
    \/ \E j \in WorkerJobs : w_cleanup(j)
    \/ \E j \in WorkerJobs : poll_begin(j)
    \/ poll_status
    \/ poll_progress
    \/ poll_filename
    \/ poll_reply
    \/ \E j \in WorkerJobs : download_file(j)

PollSpec == Init /\ [][PollNext]_vars

\* One job from submission to removal: the worker, a client that polls and
\* fetches the file, the delayed cleanup after delivery and the periodic sweep.
RetentionNext ==
    \/ generate_captcha(MinCode, TRUE)
    \/ \E c \in CaptchaIds : vc_begin(1, c, code_str(MinCode))
    \/ vc_lock(1)
    \/ vc_check(1)
    \/ /\ nextJob < NumWorkers
       /\ \E t \in Tokens : download_video("https://youtu.be/v1", <<"b">>, "mp4", t)
    \/ \E j \in WorkerJobs : w_start(j)
    \/ \E j \in WorkerJobs, fs \in DirInputs : w_return(j, "", fs)
    \/ \E j \in WorkerJobs : w_resolve(j)
    \/ \E j \in WorkerJobs : w_set_filename(j)
    \/ \E j \in WorkerJobs : w_set_status(j)
    \/ \E j \in WorkerJobs : w_set_progress(j)
    \/ \E j \in WorkerJobs : w_set_completed(j)
    \/ \E j \in WorkerJobs : w_set_bytes(j)
    \/ \E j \in WorkerJobs : w_check_size(j)
    \/ \E j \in WorkerJobs : w_cleanup(j)
    \/ \E j \in WorkerJobs : poll_begin(j)
    \/ poll_status
    \/ poll_progress
    \/ poll_filename
    \/ poll_reply
    \/ \E j \in WorkerJobs : download_file(j)
    \/ \E j \in WorkerJobs : schedule_cleanup_job(j)
    \/ cleanup_old_jobs
    \/ SweepTick

RetentionSpec == Init /\ [][RetentionNext]_vars

\* One job and the three actors that delete its working directory: the worker on
\* an error, the delayed cleanup threads of its deliveries and the sweep, each
\* taken statement by statement.
DeletionNext ==
    \/ generate_captcha(MinCode, TRUE)
    \/ \E c \in CaptchaIds : vc_begin(1, c, code_str(MinCode))
    \/ vc_lock(1)
    \/ vc_check(1)
    \/ /\ nextJob < NumWorkers
       /\ \E t \in Tokens : download_video("https://youtu.be/v1", <<"b">>, "mp4", t)
    \/ \E j \in WorkerJobs : w_start(j)
    \/ \E j \in WorkerJobs, fs \in DirInputs : w_return(j, "", fs)
    \/ \E j \in WorkerJobs : w_resolve(j)
    \/ \E j \in WorkerJobs : w_set_filename(j)
    \/ \E j \in WorkerJobs : w_set_status(j)
    \/ \E j \in WorkerJobs : w_set_progress(j)
    \/ \E j \in WorkerJobs : w_set_completed(j)
    \/ \E j \in WorkerJobs : w_set_bytes(j)
    \/ \E j \in WorkerJobs : w_check_size(j)
    \/ \E j \in WorkerJobs : w_cleanup(j)
    \/ \E j \in WorkerJobs : download_file(j)
    \/ \E s \in served : sc_lookup(s)
    \/ \E s \in DOMAIN cleaner : sc_rmtree(s)
    \/ \E s \in DOMAIN cleaner : sc_pop(s)
    \/ sw_collect
    \/ \E j \in WorkerJobs : sw_check(j)
    \/ sw_rmtree
    \/ sw_pop
    \/ SweepTick

DeletionSpec == Init /\ [][DeletionNext]_vars

\* The submission endpoint under every kind of format selector, with one client
\* that solves captchas.
SubmitNext ==
    \/ Tick
    \/ generate_captcha(MinCode, TRUE)
    \/ \E c \in CaptchaIds : vc_begin(1, c, code_str(MinCode))
    \/ vc_lock(1)
    \/ vc_check(1)
    \/ \E u \in UrlInputs, f \in BadFormats \cup {<<"b">>}, e \in ExtInputs,
          t \in Tokens \cup {NoId} : download_video(u, f, e, t)

SubmitSpec == Init /\ [][SubmitNext]_vars

\* The verification gate with the section under captcha_store_lock taken in two
\* steps, lookup and pop; every other holder of the lock waits for it.
RedeemNext ==
    \/ Tick
    \/ \E c \in Codes, ok \in BOOLEAN : captcha_lock_free /\ generate_captcha(c, ok)
    \/ captcha_lock_free /\ cleanup_expired_captchas
    \/ \E h \in Redeemers, c \in CaptchaIds \cup {NoId}, u \in UserInputs :
          captcha_lock_free /\ vc_begin(h, c, u)
    \/ \E h \in Redeemers : vl_lookup(h)
    \/ \E h \in Redeemers : vl_pop(h)
    \/ \E h \in Redeemers : vc_check(h)

RedeemSpec == Init /\ [][RedeemNext]_vars

\* Calls of find_final_file_in_dir on every listing and title hint.
ScanNext == \E temp_dir \in ScanDirInputs, title_hint \in ScanTitles :
                scan_call(temp_dir, title_hint)

ScanSpec == Init /\ [][ScanNext]_vars

\* One metadata probe after another, each with its worker thread.
ProbeNext ==
    \/ \E o \in ProbeOutcomes : pr_start(o)
    \/ pr_wait
    \/ pr_put
    \/ pr_exit
    \/ pr_join_done
    \/ pr_join_timeout
    \/ pr_is_alive
    \/ pr_read

ProbeSpec == Init /\ [][ProbeNext]_vars

\* every step of job j's download_worker thread, the returns and raises of the
\* collaborator included
WorkerRuns(j) ==
    \/ w_start(j)
    \/ \E t \in TitleInputs, fs \in DirInputs : w_return(j, t, fs)
    \/ \E m \in ErrorInputs : w_download_error(j, m)
    \/ w_exception(j)
    \/ w_resolve(j)
    \/ w_set_filename(j)
    \/ w_set_status(j)
    \/ w_set_progress(j)
    \/ w_set_completed(j)
    \/ w_set_bytes(j)
    \/ w_check_size(j)
    \/ w_cleanup(j)

\* One job, its worker with the progress hook, and the periodic sweep; the
\* client stops solving captchas once it has a session token.
FinalizeNext ==
    \/ generate_captcha(MinCode, TRUE)
    \/ /\ nextToken = 0
       /\ \E c \in CaptchaIds : vc_begin(1, c, code_str(MinCode))
    \/ vc_lock(1)
    \/ vc_check(1)
    \/ /\ nextJob < NumWorkers
       /\ \E t \in Tokens : download_video("https://youtu.be/v1", <<"b">>, "mp4", t)
    \/ \E j \in WorkerJobs : WorkerRuns(j)
    \/ \E j \in WorkerJobs, d \in ErrorEvents \cup FinishedEvents : hook(j, d)
    \/ cleanup_old_jobs
    \/ SweepTick

\* A started worker thread keeps being scheduled, and every collaborator call
\* returns or raises.
FinalizeSpec ==
    /\ Init
    /\ [][FinalizeNext]_vars
    /\ \A j \in WorkerJobs : WF_vars(WorkerRuns(j))

\* The handlers and background threads as the lock sections they enter.
LockNext ==
    \/ \E t \in Threads, op \in LockOps : lk_begin(t, op)
    \/ \E t \in Threads : lk_acquire(t)
    \/ \E t \in Threads : lk_release(t)

\* A thread inside a `with` block keeps running until it leaves the block.
LockSpec ==
    /\ Init
    /\ [][LockNext]_vars
    /\ \A t \in Threads : WF_vars(lk_release(t))

\* ------------------------------------------------------------------ claims
\* The job records that exist, in or out of the job table.
Records == DOMAIN job

\* a submission that passes every check but the session check
GoodUrl == "https://youtu.be/v1"

GoodFormat == <<"b">>

\* the token is in the session table and the clock has not passed its expiry
Unexpired(t) == t \in DOMAIN verified_sessions /\ now <= verified_sessions[t].expires

C3_PercentIffCompleted ==
    \A j \in Records :
        wpc[j] = "done" => ((job[j].progress = 1000) <=> (job[j].status = "completed"))

\* C4 -- a record whose state is completed or error keeps that state in every
\* later step.
C4_TerminalStateKept ==
    [][\A j \in Records :
          job[j].status \in {"completed", "error"} => job'[j].status = job[j].status]_vars

MintedFrom(c) == {t \in DOMAIN minted : minted[t].captcha_id = c}

\* request h of verify_captcha carries the code that was issued for its challenge
TypedRight(h) ==
    /\ vloc[h].captcha_id \in DOMAIN issued
    /\ ~IsWrongFor(vloc[h].captcha_id, vloc[h].user_input)

\* request h is about to look up a challenge that AttemptCap attempts with an
\* incorrect code have already gone through the lookup for
AfterCap(h) ==
    /\ vpc[h] = "lock"
    /\ vloc[h].captcha_id \in DOMAIN issued
    /\ wrong[vloc[h].captcha_id] >= AttemptCap

\* C6 -- an attempt that follows AttemptCap incorrect attempts on the same
\* challenge is rejected at the lookup and mints no token, whatever code it
\* carries.
C6_NoTokenAfterCap ==
    /\ \A t \in DOMAIN minted : ~minted[t].capped
    /\ \A h \in Redeemers : AfterCap(h) => vc_lock_response(h) \in {404, 400}

\* a correct attempt that follows AttemptCap incorrect ones is being answered
C6_Witness ==
    \E h \in Redeemers :
        /\ AfterCap(h)
        /\ TypedRight(h)
        /\ now <= issued[vloc[h].captcha_id].expires

C8_OneTokenPerChallenge ==
    \A c \in CaptchaIds :
        /\ Cardinality(MintedFrom(c)) <= 1
        /\ Cardinality({h \in Redeemers : vpc[h] = "check" /\ vloc[h].captcha_id = c}) <= 1
        /\ MintedFrom(c) # {} =>
              /\ c \notin DOMAIN captcha_store
              /\ \A h \in Redeemers :
                     (vpc[h] = "lock" /\ vloc[h].captcha_id = c)
                         => vc_lock_response(h) = 404

\* two attempts with the right code raced for one challenge; one minted a token
C8_Witness ==
    \E c \in CaptchaIds, h \in Redeemers :
        /\ MintedFrom(c) # {}
        /\ vpc[h] = "lock"
        /\ vloc[h].captcha_id = c
        /\ TypedRight(h)

\* C9 -- every token in the session table was put there by an attempt whose
\* code matched the code issued for a challenge that was stored and unexpired
\* when the attempt looked it up; no other operation adds a token.
C9_TokensComeFromRedeem ==
    \A t \in DOMAIN verified_sessions :
        /\ t \in DOMAIN minted
        /\ minted[t].matched
        /\ minted[t].fresh
        /\ minted[t].captcha_id \in DOMAIN issued
        /\ verified_sessions[t].expires = minted[t].expires

\* a token is in the table after other operations have written to its entry
C9_Witness ==
    \E t \in DOMAIN verified_sessions : verified_sessions[t].verified_videos # {}

\* the token is missing, unknown to the session table, or past its expiry
NoLiveSession(t) ==
    \/ t = NoId
    \/ t \notin DOMAIN verified_sessions
    \/ now > verified_sessions[t].expires

\* C10 as written -- every submission with a missing, unknown or expired token
\* is answered 403.
C10_Always403 ==
    \A t \in Tokens \cup {NoId} :
        NoLiveSession(t) =>
            \A u \in UrlInputs, f \in FormatInputs, e \in ExtInputs :
                download_video_response(u, f, e, t) = 403

\* C10 -- a submission that reaches the session check with a missing, unknown
\* or expired token is answered 403; it creates no record, starts no worker,
\* and leaves the session table without that token.
C10_RejectedWithoutSession ==
    [][\A t \in Tokens \cup {NoId} :
          NoLiveSession(t) =>
              \A u \in UrlInputs, f \in FormatInputs :
                  ReachesSessionCheck(u, f) =>
                      \A e \in ExtInputs :
                          /\ download_video_response(u, f, e, t) = 403
                          /\ download_video(u, f, e, t)
                                => /\ UNCHANGED <<jobVars, workerVars, accepted>>
                                   /\ t \notin DOMAIN verified_sessions']_vars

\* a submission found its token expired and removed it
C10_Witness == \E t \in lapsed : t \in DOMAIN minted /\ now > minted[t].expires

\* request h is about to look up a challenge whose expiry time has passed
LooksUpExpired(h) ==
    /\ vpc[h] = "lock"
    /\ vloc[h].captcha_id \in DOMAIN issued
    /\ now > issued[vloc[h].captcha_id].expires

\* C11 -- an attempt that looks up a challenge after its expiry time is answered
\* without a token, whatever its code, and leaves the challenge out of the
\* store; every token was minted from a challenge looked up before its expiry.
C11_ExpiredNeverRedeemed ==
    [][/\ \A h \in Redeemers :
              (LooksUpExpired(h) /\ vc_lock(h)) =>
                  /\ vloc[h].captcha_id \notin DOMAIN captcha_store'
                  /\ vpc'[h] = "idle"
                  /\ vc_lock_response(h) \in {404, 400}
       /\ \A t \in DOMAIN minted' : minted'[t].fresh]_vars

\* the right code is about to be checked against a stored challenge that expired
C11_Witness ==
    \E h \in Redeemers :
        /\ LooksUpExpired(h)
        /\ vloc[h].captcha_id \in DOMAIN captcha_store
        /\ TypedRight(h)

\* C12 -- while a record stays in state downloading, its percent never
\* decreases from one step to the next.
C12_PercentNeverDecreases ==
    [][\A j \in Records :
          (job[j].status = "downloading" /\ job'[j].status = "downloading")
              => job'[j].progress >= job[j].progress]_vars

\* the record of job j but for the stamp every lookup leaves in last_accessed
SameButStamp(j) == job'[j] = [job[j] EXCEPT !.last_accessed = job'[j].last_accessed]

C14_SnapshotNotTorn ==
    ppc = "reply" => ~(snap.status = "downloading" /\ snap.progress = 1000)

\* the errors the attempts of job j have raised so far, oldest first
Outcomes(j) == wloc[j].outcomes

\* the worker of job j has left its retry loop
LoopLeft(j) == wpc[j] \in {"cleanup", "done"}

\* messages of the classes named fatal: format unavailable, private or
\* unavailable video, bot-verification wall
FatalMessages ==
    {m \in ErrorInputs :
        m \cap {"requested format is not available", "private video",
                "video unavailable", "sign in to confirm"} # {}}

\* C15 -- an attempt that raises a fatal error is the last one: the loop is left
\* with state error and the latch set, no backoff sleep is made for it, and a
\* fatal error on the first attempt means one invocation and no sleep at all.
C15_FatalEndsAtOnce ==
    \A j \in DOMAIN wloc :
        \A k \in 1 .. Len(Outcomes(j)) :
            Outcomes(j)[k] \in FatalMessages =>
                /\ k = Len(Outcomes(j))
                /\ wloc[j].attempts = k
                /\ LoopLeft(j)
                /\ job[j].status = "error"
                /\ job[j].completed
                /\ k = 1 => wloc[j].slept = 0

C15_Witness ==
    \E j \in DOMAIN wloc :
        /\ wpc[j] = "done"
        /\ Len(Outcomes(j)) = 1
        /\ Outcomes(j)[1] \in FatalMessages

\* C16 -- an age-restriction error on the first attempt ends the job with state
\* error after that one attempt, without a retry or a backoff sleep.
C16_AgeRestrictionFatal ==
    \A j \in DOMAIN wloc :
        (Len(Outcomes(j)) >= 1 /\ Outcomes(j)[1] = {"age restricted"}) =>
            /\ wloc[j].attempts = 1
            /\ wloc[j].slept = 0
            /\ job[j].status = "error"

\* delay(k) = min(2^k, 30) seconds
Delay(k) == IF 2 ^ k < 30 THEN 2 ^ k ELSE 30

RateLimitMessages == {{"http error 429"}, {"rate limit"}}

\* the collaborator returned and left a file of at least the minimum size
GoodOutput(j) ==
    /\ wloc[j].final # << >>
    /\ Exists(j, wloc[j].final)
    /\ SizeOf(j, wloc[j].final) >= 1024

\* C17 -- after rate-limit errors on attempts 1 and 2 the collaborator is invoked
\* a third time, the backoff sleeps total delay(1) + delay(2), and a third
\* attempt that succeeds leaves the job completed.
C17_TwoBackoffsThenSuccess ==
    \A j \in DOMAIN wloc :
        (/\ Len(Outcomes(j)) = 2
         /\ Outcomes(j)[1] \in RateLimitMessages
         /\ Outcomes(j)[2] \in RateLimitMessages) =>
            /\ wloc[j].attempts = 3
            /\ wloc[j].slept = Delay(1) + Delay(2)
            /\ (wpc[j] = "done" /\ GoodOutput(j)) =>
                  /\ job[j].status = "completed"
                  /\ job[j].completed
                  /\ job[j].progress = 1000

C17_Witness ==
    \E j \in DOMAIN wloc :
        /\ Len(Outcomes(j)) = 2
        /\ Outcomes(j)[1] \in RateLimitMessages
        /\ Outcomes(j)[2] \in RateLimitMessages
        /\ wpc[j] = "done"
        /\ GoodOutput(j)

\* C18 -- the collaborator is invoked at most 3 times per job; three transient
\* errors in a row end the job with state error and the upstream-blocking
\* message, after the two backoff sleeps and none after the third attempt.
C18_AtMostThreeAttempts ==
    \A j \in DOMAIN wloc :
        /\ wloc[j].attempts <= 3
        /\ Len(Outcomes(j)) <= 3
        /\ (Len(Outcomes(j)) = 3 /\ \A k \in 1 .. 3 : Outcomes(j)[k] \in RateLimitMessages) =>
              /\ wloc[j].attempts = 3
              /\ wloc[j].slept = Delay(1) + Delay(2)
              /\ LoopLeft(j)
              /\ job[j].status = "error"
              /\ job[j].error = "YouTube is blocking downloads"
              /\ job[j].completed

C18_Witness ==
    \E j \in DOMAIN wloc :
        /\ wpc[j] = "done"
        /\ Len(Outcomes(j)) = 3
        /\ \A k \in 1 .. 3 : Outcomes(j)[k] \in RateLimitMessages

\* the file the worker of job j resolved is in place and below the minimum size
SmallOutput(j) ==
    /\ j \in DOMAIN wloc
    /\ wloc[j].final # << >>
    /\ Exists(j, wloc[j].final)
    /\ SizeOf(j, wloc[j].final) < MinFileSize

\* C19 as written -- no status response reports completed for a job whose
\* resolved file is below the minimum size, and no such file is ever sent.
C19_SmallFileNeverCompleted ==
    /\ (ppc = "reply" /\ snap.status = "completed") => ~SmallOutput(snap.job_id)
    /\ \A s \in served : s.size >= MinFileSize

\* the record of job j is in the table, completed, and older than the window
OldFinalized(j) ==
    /\ j \in download_status
    /\ job[j].completed
    /\ now - job[j].created_at > IdleWindow

\* C20 as written -- a run of the sweep removes every completed record created
\* more than 30 minutes before it, and its working directory.
C20_SweepRemovesOldFinalized ==
    [][sweeps' = sweeps + 1 =>
          \A j \in Records :
              OldFinalized(j) => (j \notin download_status' /\ j \notin DOMAIN dirs')]_vars

\* no deleting actor has been stopped by an exception
NoActorFailed ==
    /\ sweeper.pc # "failed"
    /\ \A s \in DOMAIN cleaner : cleaner[s].pc # "failed"

\* a delayed cleanup thread or the sweep finishes with a job whose directory
\* path it had found set
Finishes(j, target) ==
    \/ \E s \in DOMAIN cleaner :
          /\ s.job_id = j
          /\ cleaner[s].target = target
          /\ cleaner[s].pc = "pop"
          /\ cleaner'[s].pc = "done"
    \/ /\ sweeper.cur = j
       /\ sweeper.target = target
       /\ sweeper.pc = "pop"
       /\ sweeper'.pc # "pop"

\* the sweep, a delayed cleanup thread or the worker runs its deletion of job j's
\* directory
Deletes(j) ==
    \/ sweeper.pc = "rmtree" /\ sweeper'.pc # "rmtree" /\ sweeper.target = j
    \/ \E s \in DOMAIN cleaner :
          cleaner[s].pc = "rmtree" /\ cleaner'[s].pc # "rmtree" /\ cleaner[s].target = j
    \/ wpc[j] = "cleanup" /\ wpc'[j] # "cleanup"

\* C21 -- whatever the interleaving of the sweep, the delayed cleanup threads and
\* the worker's delete-on-error on one job: no actor is stopped by an exception, a
\* deletion that finds the directory or the record already gone changes neither,
\* and every actor that finishes leaves the directory and the record absent.
C21_LaterDeletionsAreNoOps ==
    [][/\ NoActorFailed'
       /\ \A j \in Records :
             /\ (j \notin DOMAIN dirs /\ j \in DOMAIN dirs') => wpc[j] = "start"
             /\ Finishes(j, j) => (j \notin download_status' /\ j \notin DOMAIN dirs')
             /\ (j \notin download_status /\ (Finishes(j, j) \/ Finishes(j, NoId)))
                    => UNCHANGED <<download_status, dirs>>
             /\ (j \notin DOMAIN dirs /\ Deletes(j)) => UNCHANGED dirs]_vars

\* C21 witness: a delayed cleanup thread and the sweep both acted on the job, one
\* of them found the directory gone when its rmtree ran, and both have finished.
C21_Witness ==
    /\ \E s \in DOMAIN cleaner : cleaner[s].pc = "done" /\ cleaner[s].target # NoId
    /\ sweeper.pc = "idle"
    /\ sweeper.target # NoId
    /\ (sweeper.raised \/ \E s \in DOMAIN cleaner : cleaner[s].raised)
    /\ download_status = {}
    /\ DOMAIN dirs = {}

\* C22 as written -- while a job is not finalized, a step that deletes its
\* working directory is a step of its own worker.
C22_OnlyWorkerDeletesBeforeFinal ==
    [][\A j \in Records :
          (j \in DOMAIN dirs /\ j \notin DOMAIN dirs' /\ ~job[j].completed)
              => wpc'[j] # wpc[j]]_vars

\* C23 -- a run of the sweep removes every record created more than one hour
\* before it, completed or not, keeps every record that is not completed and at
\* most one hour old, and changes no field of any record.
C23_SweepByAbsoluteAge ==
    [][sweeps' = sweeps + 1 =>
          /\ job' = job
          /\ \A j \in download_status :
                /\ now - job[j].created_at > MaxJobAge => j \notin download_status'
                /\ (~job[j].completed /\ now - job[j].created_at <= MaxJobAge)
                       => (j \in download_status' /\ (j \in DOMAIN dirs <=> j \in DOMAIN dirs'))
                /\ (j \in download_status' /\ j \in DOMAIN dirs)
                       => (j \in DOMAIN dirs' /\ dirs'[j] = dirs[j])]_vars

\* C23 witness: a sweep has removed the record of a job that was never completed
\* and is more than an hour old; no delivery has taken place.
C23_Witness ==
    /\ sweeps >= 1
    /\ served = {}
    /\ \E j \in Records :
          /\ j \notin download_status
          /\ ~job[j].completed
          /\ now - job[j].created_at > MaxJobAge

C25_PathOnlyWhenCompleted ==
    \A j \in Records : job[j].filename # << >> => job[j].status = "completed"

\* C26 as written -- the error text of a record is empty unless its status is
\* error.
C26_DetailOnlyWhenError ==
    \A j \in Records : job[j].error # "" => job[j].status = "error"

\* C27 as written -- a submission with a selector that fails the allow-list is
\* answered 400, whatever its other arguments.
C27_Always400 ==
    \A t \in Tokens \cup {NoId}, u \in UrlInputs, f \in BadFormats, e \in ExtInputs :
        download_video_response(u, f, e, t) = 400

\* C27 -- a submission with a selector that fails the allow-list creates no
\* record and starts no worker; it is answered 400 when its token is live, and 403
\* when its url is well-formed and its token is missing, unknown or expired.
C27_BadFormatRejected ==
    [][\A t \in Tokens \cup {NoId}, u \in UrlInputs, f \in BadFormats :
          /\ SessionLive(t)
                => \A e \in ExtInputs : download_video_response(u, f, e, t) = 400
          /\ (ReachesSessionCheck(u, f) /\ ~SessionLive(t))
                => \A e \in ExtInputs : download_video_response(u, f, e, t) = 403
          /\ \A e \in ExtInputs :
                download_video(u, f, e, t) => UNCHANGED <<jobVars, workerVars, accepted>>]_vars

\* C27 witness: a live session is there, a submission has added its video to the
\* session, a bad selector is answered 400, and no record was ever created.
C27_Witness ==
    \E t \in Tokens :
        /\ SessionLive(t)
        /\ verified_sessions[t].verified_videos # {}
        /\ \A f \in BadFormats : download_video_response(GoodUrl, f, "mp4", t) = 400
        /\ nextJob = 0

\* request h has looked its challenge up and has not popped it yet
MidRedemption(h) == vpc[h] = "pop"

\* C28 -- a run of the gate sweep removes exactly the challenges and the sessions
\* whose expiry time has passed, and while a request is between its lookup and
\* its pop no other step takes its challenge out of the store.
C28_SweepSparesMidRedemption ==
    [][/\ cleanup_expired_captchas =>
             /\ \A c \in DOMAIN captcha_store :
                   IF now > captcha_store[c].expires
                   THEN c \notin DOMAIN captcha_store'
                   ELSE c \in DOMAIN captcha_store' /\ captcha_store'[c] = captcha_store[c]
             /\ \A t \in DOMAIN verified_sessions :
                   IF now > verified_sessions[t].expires
                   THEN t \notin DOMAIN verified_sessions'
                   ELSE /\ t \in DOMAIN verified_sessions'
                        /\ verified_sessions'[t] = verified_sessions[t]
       /\ \A h \in Redeemers :
             (MidRedemption(h) /\ vloc[h].captcha_id \in DOMAIN captcha_store)
                 => \/ vloc[h].captcha_id \in DOMAIN captcha_store'
                    \/ vpc'[h] = "check"]_vars

\* C28 witness: a request is between its lookup and its pop, its challenge has
\* expired meanwhile and is still in the store.
C28_Witness ==
    \E h \in Redeemers :
        /\ MidRedemption(h)
        /\ vloc[h].captcha_id \in DOMAIN captcha_store
        /\ now > captcha_store[vloc[h].captcha_id].expires

\* the names of the inputs that carry the partial-file marker
PartNames == {PartFile, OtherPartFile}

\* the regular files of the scanned directory that do not carry the marker
FinalCandidates ==
    {e \in scan.temp_dir.entries : e.isfile /\ e.name \notin PartNames}

\* C29 -- a directory scan never returns a name with the partial-file marker,
\* returns nothing exactly when the directory holds no regular file without the
\* marker, and with only movie.mp4 and movie.mp4.part present returns movie.mp4
\* whatever the two sizes.
C29_ScanSkipsPartial ==
    scan.returned =>
        /\ scan.result.name \notin PartNames
        /\ scan.result = NoFile <=> FinalCandidates = {}
        /\ scan.result # NoFile => \E e \in FinalCandidates : e.name = scan.result.name
        /\ {e.name : e \in scan.temp_dir.entries} = {MovieFile, PartFile}
               => scan.result.name = MovieFile

\* C29 witness: movie.mp4 of 12,000 bytes was returned although movie.mp4.part
\* of 500,000 bytes lies beside it.
C29_Witness ==
    /\ scan.returned
    /\ scan.temp_dir.entries = {[name |-> MovieFile, size |-> 12000, isfile |-> TRUE],
                                [name |-> PartFile, size |-> 500000, isfile |-> TRUE]}
    /\ scan.result.name = MovieFile

\* C30 -- a caller whose deadline expired while the probe was unfinished gets the
\* timeout error and never the probe's result; a caller whose probe finished
\* before the deadline gets exactly the probe's result or exception.
C30_TimeoutOrExact ==
    probe.pc = "returned" =>
        /\ probe.expired_alive => probe.reply = TimeoutRaised
        /\ ~probe.expired_alive => probe.reply = probe.outcome

\* C31 as written -- a record whose completed flag is false has percent at most
\* 99.9: percent reaches 100.0 only together with the flag.
C31_PercentCapUntilFinal ==
    \A j \in Records : ~job[j].completed => job[j].progress <= 999

\* the fields of job j's record that a client can read are the same after the step
SameResult(j) ==
    /\ job'[j].status = job[j].status
    /\ job'[j].progress = job[j].progress
    /\ job'[j].downloaded_bytes = job[j].downloaded_bytes
    /\ job'[j].total_bytes = job[j].total_bytes
    /\ job'[j].filename = job[j].filename
    /\ job'[j].error = job[j].error

\* C32 as written -- once the completed flag of a record is true, no later step of
\* the job's own worker changes its state, percent, byte counters, result path
\* or error detail.
C32_WorkerKeepsFinalRecord ==
    [][\A j \in Records :
          (job[j].completed /\ wpc'[j] # wpc[j]) => SameResult(j)]_vars

\* the last collaborator call of job j's worker returned without raising: every
\* attempt but the last one has its error in the history
ReturnedNormally(j) ==
    /\ wpc[j] \notin {"start", "call"}
    /\ Len(wloc[j].outcomes) = wloc[j].attempts - 1

\* C33 -- after a collaborator call that returned normally the worker never
\* invokes the collaborator again; when no output file is resolved, or the
\* resolved file is below the minimum size, the worker leaves the loop with
\* state error and the completed flag set, and keeps both until it returns.
C33_BadOutputEndsJob ==
    [][\A j \in DOMAIN wpc :
          /\ ReturnedNormally(j) =>
                (wpc'[j] # "call" /\ wloc'[j].attempts = wloc[j].attempts)
          /\ (/\ ReturnedNormally(j)
              /\ wpc[j] # "cleanup"
              /\ wpc'[j] = "cleanup"
              /\ (wloc[j].final = << >> \/ SmallOutput(j)))
                 => (job'[j].status = "error" /\ job'[j].completed)
          /\ LoopLeft(j) =>
                /\ job'[j].status = job[j].status
                /\ job'[j].completed = job[j].completed
                /\ wpc'[j] \in {"cleanup", "done"}]_vars

\* C33 witness: the collaborator returned, the resolved file is below the minimum
\* size, and the worker has left the loop.
C33_Witness ==
    \E j \in DOMAIN wpc :
        /\ ReturnedNormally(j)
        /\ wpc[j] = "cleanup"
        /\ SmallOutput(j)
        /\ job[j].status = "error"

\* the other case: the collaborator returned and no output file was resolved
C33_NoFileReached ==
    \E j \in DOMAIN wpc :
        /\ ReturnedNormally(j)
        /\ wpc[j] = "done"
        /\ wloc[j].final = << >>

\* the candidates of the scan whose name starts with the normalized title hint
TitleMatches ==
    {e \in FinalCandidates :
        scan.title_hint # "" /\ StartsWith(e.name, normalize_title(scan.title_hint))}

\* the scan returned a file of the set, and none of the set is larger
ReturnedLargestOf(set) ==
    /\ \E e \in set : e.name = scan.result.name /\ e.size = scan.result.size
    /\ \A e \in set : e.size <= scan.result.size

\* C34 -- when some non-partial file's name starts with the normalized title
\* hint the scan returns a largest such file, even beside a larger file without
\* the prefix; when none does, or the hint is empty, it returns a largest
\* non-partial file of the directory.
C34_TitleMatchThenSize ==
    (scan.returned /\ FinalCandidates # {}) =>
        IF TitleMatches # {} THEN ReturnedLargestOf(TitleMatches)
        ELSE ReturnedLargestOf(FinalCandidates)

\* C34 witness: movie.mp4 of 12,000 bytes was returned for the title "movie"
\* beside other.mp3 of 500,000 bytes.
C34_Witness ==
    /\ scan.returned
    /\ scan.title_hint = "movie"
    /\ [name |-> MovieFile, size |-> 12000, isfile |-> TRUE] \in scan.temp_dir.entries
    /\ [name |-> OtherFile, size |-> 500000, isfile |-> TRUE] \in scan.temp_dir.entries
    /\ scan.result.name = MovieFile

\* the normalized hint "a_b" matched a_b.mp4 beside a larger file
C34_NormalizedHintMatched ==
    /\ scan.returned
    /\ scan.title_hint = "a/b"
    /\ [name |-> OtherFile, size |-> 500000, isfile |-> TRUE] \in scan.temp_dir.entries
    /\ scan.result.name = SlashFile

\* the deliveries whose delayed cleanup thread has run
CleanedDeliveries == {s \in served : ~s.pending}

C36_NoOrphanDirectory ==
    \A d \in DOMAIN dirs : wpc[d] = "done" => d \in download_status

\* the k-th attempt of job j was the last one and ended the job with an error
EndedAt(j, k) ==
    /\ k = Len(Outcomes(j))
    /\ wloc[j].attempts = k
    /\ LoopLeft(j)
    /\ job[j].status = "error"
    /\ job[j].completed

\* the message of both classes: non-retryable and retryable
MixedMessage == {"video unavailable", "http error 403"}

\* C37 -- a download error is classified by fixed precedence: a bot-verification
\* phrase ends the job; else a non-retryable phrase ends it, a retryable phrase
\* in the same message notwithstanding; else a retryable phrase leads to another
\* attempt while fewer than three were made and ends the job on the third; a
\* message with no known phrase ends the job at once.
C37_ClassifiedByPrecedence ==
    \A j \in DOMAIN wloc :
        \A k \in 1 .. Len(Outcomes(j)) :
            LET m == Outcomes(j)[k]
            IN m # OtherException =>
                  IF m \cap BotPhrases # {} THEN EndedAt(j, k)
                  ELSE IF m \cap non_retryable_errors # {} THEN EndedAt(j, k)
                  ELSE IF m \cap retryable_errors # {}
                  THEN IF k < max_retries
                       THEN wloc[j].attempts >= k + 1
                       ELSE EndedAt(j, k)
                  ELSE EndedAt(j, k)

\* C37 witness: the first attempt raised a message with both 'video unavailable'
\* and 'http error 403', and the worker has returned.
C37_Witness ==
    \E j \in DOMAIN wloc :
        /\ wpc[j] = "done"
        /\ Len(Outcomes(j)) = 1
        /\ Outcomes(j)[1] = MixedMessage

\* a message with no known phrase was raised on the first attempt
C37_UnknownMessageReached ==
    \E j \in DOMAIN wloc :
        /\ wpc[j] = "done"
        /\ Len(Outcomes(j)) = 1
        /\ Outcomes(j)[1] = {}

\* C38 as written -- on every exit path of the worker routine the completed flag
\* is true and the state is completed or error.
C38_EveryExitFinalized ==
    \A j \in DOMAIN wpc :
        wpc[j] = "done" =>
            (job[j].completed /\ job[j].status \in {"completed", "error"})

\* the worker of job j found no record at line 555 and returned at line 558
ReturnedAtLookup(j) ==
    /\ wpc[j] = "done"
    /\ job[j].temp_dir = NoId

\* C38, amended -- the worker of every accepted job returns: its loop makes at
\* most three attempts; a worker that found its record returns with the completed
\* flag set and state completed or error, and a worker whose record was already
\* removed returns at once and leaves the job object as it was.
C38_WorkerReturnsFinalized ==
    /\ [](\A j \in DOMAIN wpc :
            /\ wloc[j].attempts <= max_retries
            /\ wpc[j] = "done" =>
                  IF ReturnedAtLookup(j)
                  THEN /\ j \notin download_status
                       /\ job[j].status = "queued"
                       /\ ~job[j].completed
                  ELSE /\ job[j].completed
                       /\ job[j].status \in {"completed", "error"})
    /\ \A j \in WorkerJobs :
          (j \in DOMAIN wpc) ~> (j \in DOMAIN wpc /\ wpc[j] = "done")

\* C38 witness: a worker returned after three attempts with its record finalized.
C38_Witness ==
    \E j \in DOMAIN wpc :
        /\ wpc[j] = "done"
        /\ wloc[j].attempts = max_retries
        /\ job[j].completed

\* a worker returned at the lookup because the sweep had removed its record
C38_ReturnedAtLookupReached ==
    \E j \in DOMAIN wpc : ReturnedAtLookup(j)

\* the locks thread t holds
HeldBy(t) == {l \in TableLocks : locks.owner[l] = t}

\* thread t is inside a handler and can take its next step
CanStep(t) ==
    /\ locks.thread[t].op # "idle"
    /\ (NextLockStep(t).do = "acquire" => locks.owner[NextLockStep(t).lock] = NoId)

\* C39 -- no thread holds more than one of the three table locks at a time; in
\* no state are all the threads that are inside a handler blocked; and every
\* lock that is taken is released again.
C39_OneLockAtATime ==
    /\ [](\A t \in Threads : Cardinality(HeldBy(t)) <= 1)
    /\ []((\E t \in Threads : locks.thread[t].op # "idle") => \E t \in Threads : CanStep(t))
    /\ \A l \in TableLocks : (locks.owner[l] # NoId) ~> (locks.owner[l] = NoId)

\* C39 witness: one thread holds the challenge-table lock inside the redemption
\* handler while the other, in the sweep, waits for that lock.
C39_Witness ==
    \E t, u \in Threads :
        /\ locks.owner["captcha_store_lock"] = t
        /\ locks.thread[t].op = "verify_captcha valid"
        /\ locks.thread[u].op = "schedule_cleanup"
        /\ NextLockStep(u) = [do |-> "acquire", lock |-> "captcha_store_lock"]

====
